---------------------------- MODULE Spec2Model ----------------------------
(***************************************************************************)
(* Verification model of the gridcapacity capacity-analysis and            *)
(* contingency-screening engine.                                           *)
(*                                                                         *)
(* Quantities are integers: bus voltages in hundredths of p.u. (110 is     *)
(* 1.10 p.u.), loadings in percent, swing bus power in MW.  Element        *)
(* indexes are 0-based as in the source (Python enumerate); the value of   *)
(* index k is at position k + 1 of its sequence.                           *)
(***************************************************************************)
EXTENDS Integers, Sequences, FiniteSets, TLC

VARIABLES
    backend,            \* "psse" or "pandapower": the engine behind the accessors
    case,               \* the case file that open_case loads
    config,             \* the configuration of the run
    line,               \* the engine's branch table: from_bus, to_bus, id, in_service
    trafo,              \* the engine's 2-winding transformer table
    load,               \* the engine's load table: bus, name, mva
    sgen,               \* the engine's machine table: bus, name, mva
    res,                \* outcome of the engine's last solve
    pc,                 \* position of the program
    exc,                \* the exception in flight or raised, or "None"
    power_flows,        \* PowerFlows._power_flows_count
    solves,             \* solver invocations since the process started
    limits,             \* ViolationsLimits of the last check_violations call
    v,                  \* Violations returned by the last check_violations call
    checks_run,         \* limit checks evaluated by the last check_violations call
    violations_stats,   \* ViolationsStats._violations_stats
    contingency_scenario, \* CapacityAnalyser._contingency_scenario
    not_critical,       \* get_contingency_scenario: the elements kept so far
    el_kind,            \* the loop of the builder or checker: "branch" or "trafo"
    el_idx,             \* 0-based position in that loop
    is_disabled,        \* the value the current disable_branch / disable_trafo yielded
    held_idx,           \* the table row the current disable switched off (0: none)
    status_before,      \* the tables as they were when the current disable was entered
    tested,             \* the outcome of every N-1 check of the current call, in order
    call_solves,        \* the value of solves when the current call was entered
    violations,         \* get_contingency_limiting_factor.violations
    limiting_factor,    \* the LimitingFactor of the last feasibility check, or "None"
    is_feasible,        \* the verdict of the last feasibility check
    bus_idx,            \* 0-based position in Buses() of the bus analysed
    temp_kind,          \* "load" (TemporaryBusLoad) or "gen" (TemporaryBusMachine)
    temp_mva,           \* the power of the temporary subsystem of the current probe
    tables_before,      \* the load and machine tables when the probe was entered
    lower_limit_mva,    \* max_power_available_mva.lower_limit_mva
    upper_limit_mva,    \* max_power_available_mva.upper_limit_mva
    iterations_left,    \* iterations the bisection loop may still run
    actual_mva,         \* load_mva() and gen_mva() of the bus analysed
    search_result,      \* what the last max_power_available_mva call returned
    load_result,        \* the result of the load search of the current bus
    headroom,           \* the BusHeadroom records returned so far
    feasibility_stats,  \* CapacityAnalysisStats._feasibility_stats
    contingency_stats,  \* CapacityAnalysisStats._contingency_stats
    built,              \* the scenarios get_contingency_scenario returned so far
    base_case_violations, \* check_base_case_violations.base_case_violations
    base_case_stats,    \* what register_base_case_violations recorded, or None
    calls,              \* the calls made so far, in order
    probes,             \* the probes of the current search: power and verdict
    run_probes          \* every probe since the process started, with its bus

cfg_vars == <<backend, case, config>>
net_vars == <<line, trafo>>
inj_vars == <<load, sgen>>
classifier_vars == <<res, power_flows, solves, limits, v, checks_run, violations_stats>>
scenario_vars == <<contingency_scenario, not_critical, built>>
loop_vars == <<el_kind, el_idx>>
disable_vars == <<is_disabled, held_idx, status_before>>
check_vars == <<violations, limiting_factor, is_feasible>>
bisection_vars ==
    <<temp_mva, lower_limit_mva, upper_limit_mva, iterations_left, probes,
      run_probes>>
bus_vars == <<bus_idx, temp_kind, actual_mva, load_result, headroom>>
capacity_stats_vars == <<feasibility_stats, contingency_stats>>
base_case_vars == <<base_case_violations, base_case_stats>>

vars ==
    <<cfg_vars, base_case_vars, calls, net_vars, inj_vars, classifier_vars,
      scenario_vars, loop_vars, disable_vars, tested, call_solves, check_vars, bisection_vars, tables_before,
      search_result, bus_vars, capacity_stats_vars, pc, exc>>

(***************************************************************************)
(* Bounds of the model.                                                    *)
(***************************************************************************)
NBuses == 2
NLines == 2
NTrafos == 1
NTrafos3w == NTrafos
NSwingBuses == NTrafos

(***************************************************************************)
(* Violations (enum.Flag): a flag set; NO_VIOLATIONS is the empty set and  *)
(* the bitwise OR is the union.                                            *)
(***************************************************************************)
NO_VIOLATIONS == {}
NOT_CONVERGED == "NOT_CONVERGED"
BUS_OVERVOLTAGE == "BUS_OVERVOLTAGE"
BUS_UNDERVOLTAGE == "BUS_UNDERVOLTAGE"
BRANCH_LOADING == "BRANCH_LOADING"
TRAFO_LOADING == "TRAFO_LOADING"
TRAFO_3W_LOADING == "TRAFO_3W_LOADING"
SWING_BUS_LOADING == "SWING_BUS_LOADING"

Violations ==
    {NOT_CONVERGED, BUS_OVERVOLTAGE, BUS_UNDERVOLTAGE, BRANCH_LOADING,
     TRAFO_LOADING, TRAFO_3W_LOADING, SWING_BUS_LOADING}

(***************************************************************************)
(* ViolationsLimits: the defaults of check_violations (normal limits) and  *)
(* of get_contingency_limiting_factor (contingency limits).                *)
(***************************************************************************)
NormalLimits ==
    [max_bus_voltage_pu |-> 110, min_bus_voltage_pu |-> 90,
     max_branch_loading_pct |-> 100, max_trafo_loading_pct |-> 100,
     max_swing_bus_power_p_mw |-> 1000]

ContingencyLimits ==
    [max_bus_voltage_pu |-> 112, min_bus_voltage_pu |-> 88,
     max_branch_loading_pct |-> 120, max_trafo_loading_pct |-> 120,
     max_swing_bus_power_p_mw |-> 1000]

(***************************************************************************)
(* Accessors over the solved state.                                        *)
(***************************************************************************)
\* tuple(idx for idx, x in enumerate(values) if Test(x))
SelectIndexes(values, Test(_)) ==
    SelectSeq([i \in 1..Len(values) |-> i - 1], LAMBDA k : Test(values[k + 1]))

\* Variant: the overvoltage test made inclusive
get_overvoltage_indexes_inclusive(r, max_bus_voltage) ==
    SelectIndexes(r.vm_pu, LAMBDA pu_voltage : pu_voltage >= max_bus_voltage)

get_overvoltage_indexes(r, max_bus_voltage) ==
    SelectIndexes(r.vm_pu, LAMBDA pu_voltage : pu_voltage > max_bus_voltage)

get_undervoltage_indexes(r, min_bus_voltage) ==
    SelectIndexes(r.vm_pu, LAMBDA pu_voltage : pu_voltage < min_bus_voltage)

branches_get_overloaded_indexes(r, max_branch_loading_pct) ==
    SelectIndexes(r.line_loading, LAMBDA pct_rate : pct_rate > max_branch_loading_pct)

trafos_get_overloaded_indexes(r, max_trafo_loading_pct) ==
    SelectIndexes(r.trafo_loading, LAMBDA pct_rate : pct_rate > max_trafo_loading_pct)

trafos3w_get_overloaded_indexes(r, max_trafo_loading_pct) ==
    SelectIndexes(r.trafo3w_loading, LAMBDA pct_rate : pct_rate > max_trafo_loading_pct)

swing_buses_get_overloaded_indexes(r, max_swing_bus_power_p_mw) ==
    SelectIndexes(r.swing_p_mw, LAMBDA power_p_mw : power_p_mw > max_swing_bus_power_p_mw)

\* get_voltage_pu / get_power_p_mw / get_loading_pct of the selected indexes
get_values(values, selected_indexes) ==
    [j \in 1..Len(selected_indexes) |-> values[selected_indexes[j] + 1]]

(***************************************************************************)
(* ViolationsStats: violation -> limit -> element index -> list of values, *)
(* a function over the keys <<violation, limit, index>> present.           *)
(***************************************************************************)
EmptyStats == <<>>

RECURSIVE AppendPairs(_, _, _, _, _)
AppendPairs(stats, violation, limit, idxs, values) ==
    IF idxs = <<>> \/ values = <<>>
    THEN stats
    ELSE LET key == <<violation, limit, Head(idxs)>>
             next == IF key \in DOMAIN stats
                     THEN [stats EXCEPT ![key] = Append(@, Head(values))]
                     ELSE stats @@ (key :> <<Head(values)>>)
         IN  AppendPairs(next, violation, limit, Tail(idxs), Tail(values))

\* Variant: only the first violating element is recorded
append_violations_first_only(stats, violation, limit, values, indexes) ==
    AppendPairs(stats, violation, limit, <<Head(indexes)>>,
                get_values(values, <<Head(indexes)>>))

append_violations(stats, violation, limit, subsystem_values, violated_subsystem_indexes) ==
    AppendPairs(stats, violation, limit, violated_subsystem_indexes,
                get_values(subsystem_values, violated_subsystem_indexes))

(***************************************************************************)
(* check_violations after the solve: the classification of the solved      *)
(* state r against the limits lim, with the stats and the list of limit    *)
(* checks it evaluated.                                                    *)
(***************************************************************************)
\* Variant: a limit check skipped once an earlier one has triggered
limit_check_short_circuit(acc, violation, limit, subsystem_values, indexes) ==
    [v |-> IF indexes # <<>> /\ acc.v = NO_VIOLATIONS THEN {violation} ELSE acc.v,
     stats |-> IF indexes # <<>> /\ acc.v = NO_VIOLATIONS
               THEN append_violations(acc.stats, violation, limit, subsystem_values, indexes)
               ELSE acc.stats,
     checks_run |-> Append(acc.checks_run, violation)]

limit_check(acc, violation, limit, subsystem_values, indexes) ==
    [v |-> IF indexes # <<>> THEN acc.v \cup {violation} ELSE acc.v,
     stats |-> IF indexes # <<>>
               THEN append_violations(acc.stats, violation, limit, subsystem_values, indexes)
               ELSE acc.stats,
     checks_run |-> Append(acc.checks_run, violation)]

\* Variant: a solve that did not converge is reported as clean
check_violations_unless_not_converged(lim, r, stats) ==
    LET c0 == [v |-> NO_VIOLATIONS, stats |-> stats, checks_run |-> <<>>]
    IN  IF ~r.converged
        THEN c0
        ELSE LET c1 == limit_check(c0, BUS_OVERVOLTAGE, lim.max_bus_voltage_pu, r.vm_pu,
                           get_overvoltage_indexes(r, lim.max_bus_voltage_pu))
                 c2 == limit_check(c1, BUS_UNDERVOLTAGE, lim.min_bus_voltage_pu, r.vm_pu,
                           get_undervoltage_indexes(r, lim.min_bus_voltage_pu))
                 c3 == limit_check(c2, BRANCH_LOADING, lim.max_branch_loading_pct,
                           r.line_loading,
                           branches_get_overloaded_indexes(r, lim.max_branch_loading_pct))
                 c4 == limit_check(c3, TRAFO_LOADING, lim.max_trafo_loading_pct,
                           r.trafo_loading,
                           trafos_get_overloaded_indexes(r, lim.max_trafo_loading_pct))
                 c5 == limit_check(c4, TRAFO_3W_LOADING, lim.max_trafo_loading_pct,
                           r.trafo3w_loading,
                           trafos3w_get_overloaded_indexes(r, lim.max_trafo_loading_pct))
                 c6 == limit_check(c5, SWING_BUS_LOADING, lim.max_swing_bus_power_p_mw,
                           r.swing_p_mw,
                           swing_buses_get_overloaded_indexes(r, lim.max_swing_bus_power_p_mw))
             IN  c6

\* Variant: no early return on non-convergence
check_violations_falls_through(lim, r, stats) ==
    LET c0 == [v |-> IF r.converged THEN NO_VIOLATIONS ELSE {NOT_CONVERGED},
               stats |-> stats, checks_run |-> <<>>]
        c1 == limit_check(c0, BUS_OVERVOLTAGE, lim.max_bus_voltage_pu, r.vm_pu,
                  get_overvoltage_indexes(r, lim.max_bus_voltage_pu))
        c2 == limit_check(c1, BUS_UNDERVOLTAGE, lim.min_bus_voltage_pu, r.vm_pu,
                  get_undervoltage_indexes(r, lim.min_bus_voltage_pu))
        c3 == limit_check(c2, BRANCH_LOADING, lim.max_branch_loading_pct, r.line_loading,
                  branches_get_overloaded_indexes(r, lim.max_branch_loading_pct))
        c4 == limit_check(c3, TRAFO_LOADING, lim.max_trafo_loading_pct, r.trafo_loading,
                  trafos_get_overloaded_indexes(r, lim.max_trafo_loading_pct))
        c5 == limit_check(c4, TRAFO_3W_LOADING, lim.max_trafo_loading_pct, r.trafo3w_loading,
                  trafos3w_get_overloaded_indexes(r, lim.max_trafo_loading_pct))
        c6 == limit_check(c5, SWING_BUS_LOADING, lim.max_swing_bus_power_p_mw, r.swing_p_mw,
                  swing_buses_get_overloaded_indexes(r, lim.max_swing_bus_power_p_mw))
    IN  c6

check_violations(lim, r, stats) ==
    LET c0 == [v |-> NO_VIOLATIONS, stats |-> stats, checks_run |-> <<>>]
    IN  IF ~r.converged
        THEN [c0 EXCEPT !.v = @ \cup {NOT_CONVERGED}]
        ELSE LET c1 == limit_check(c0, BUS_OVERVOLTAGE, lim.max_bus_voltage_pu, r.vm_pu,
                           get_overvoltage_indexes(r, lim.max_bus_voltage_pu))
                 c2 == limit_check(c1, BUS_UNDERVOLTAGE, lim.min_bus_voltage_pu, r.vm_pu,
                           get_undervoltage_indexes(r, lim.min_bus_voltage_pu))
                 c3 == limit_check(c2, BRANCH_LOADING, lim.max_branch_loading_pct,
                           r.line_loading,
                           branches_get_overloaded_indexes(r, lim.max_branch_loading_pct))
                 c4 == limit_check(c3, TRAFO_LOADING, lim.max_trafo_loading_pct,
                           r.trafo_loading,
                           trafos_get_overloaded_indexes(r, lim.max_trafo_loading_pct))
                 c5 == limit_check(c4, TRAFO_3W_LOADING, lim.max_trafo_loading_pct,
                           r.trafo3w_loading,
                           trafos3w_get_overloaded_indexes(r, lim.max_trafo_loading_pct))
                 c6 == limit_check(c5, SWING_BUS_LOADING, lim.max_swing_bus_power_p_mw,
                           r.swing_p_mw,
                           swing_buses_get_overloaded_indexes(r, lim.max_swing_bus_power_p_mw))
             IN  c6

(***************************************************************************)
(* Complex powers are records [re, im]; only the real part enters the      *)
(* physics of the model.                                                   *)
(***************************************************************************)
Mva(re, im) == [re |-> re, im |-> im]
ZeroMva == Mva(0, 0)

RECURSIVE SumRe(_)
SumRe(rows) == IF rows = <<>> THEN 0 ELSE Head(rows).mva.re + SumRe(Tail(rows))

RECURSIVE SumSeverity(_, _)
SumSeverity(rows, severity) ==
    IF rows = <<>>
    THEN 0
    ELSE (IF Head(rows).in_service THEN 0 ELSE Head(severity))
         + SumSeverity(Tail(rows), Tail(severity))

Max(a, b) == IF a >= b THEN a ELSE b

(***************************************************************************)
(* The external power-flow engine, a deterministic function of the network *)
(* state.  The demand d grows with every load, falls with every machine    *)
(* and grows by the severity of every element out of service; voltages     *)
(* fall and loadings rise with d, and the solve diverges beyond            *)
(* DivergenceDemand.                                                       *)
(***************************************************************************)
DivergenceDemand == 6

Demand(c, lines, trafos, loads, gens) ==
    SumSeverity(lines, c.line_severity) + SumSeverity(trafos, c.trafo_severity)
    + SumRe(loads) - SumRe(gens)

run_solver(c, lines, trafos, loads, gens) ==
    LET d == Demand(c, lines, trafos, loads, gens)
    IN  [converged |-> d <= DivergenceDemand /\ d >= -DivergenceDemand,
         vm_pu |-> [b \in 1..Len(c.bus) |-> IF b = 1 THEN 100 - 3 * d ELSE 100 - 2 * d],
         line_loading |->
             [i \in 1..Len(lines) |->
                 IF lines[i].in_service THEN Max(0, 80 + 10 * d) ELSE 0],
         trafo_loading |->
             [i \in 1..Len(trafos) |->
                 IF trafos[i].in_service THEN Max(0, 70 + 10 * d) ELSE 0],
         trafo3w_loading |-> [i \in 1..NTrafos3w |-> Max(0, 60 + 10 * d)],
         swing_p_mw |-> [i \in 1..NSwingBuses |-> 900 + 20 * d]]

(***************************************************************************)
(* Network elements and their lookup in the engine's tables.               *)
(***************************************************************************)
None == [kind |-> "None"]

Branch(from_number, to_number, branch_id) ==
    [kind |-> "Branch", from_number |-> from_number, to_number |-> to_number,
     id |-> branch_id]

Trafo(from_number, to_number, trafo_id) ==
    [kind |-> "Trafo", from_number |-> from_number, to_number |-> to_number,
     id |-> trafo_id]

\* Branches()[i]: PandaPower puts the `parallel` count of the row (1 for every
\* row of the model) in place of the PSSE circuit id
branch_of_row(row) ==
    Branch(row.from_bus, row.to_bus, IF backend = "psse" THEN row.id ELSE "1")

\* Trafos()[i]
trafo_of_row(row) ==
    Trafo(row.from_bus, row.to_bus, IF backend = "psse" THEN row.id ELSE "1")

ElementsOf(kind, rows) ==
    [i \in 1..Len(rows) |->
        IF kind = "branch" THEN branch_of_row(rows[i]) ELSE trafo_of_row(rows[i])]

Min(S) == CHOOSE x \in S : \A y \in S : x <= y

\* Branch.pp_idx / the row wf.brnint answers for; 0 when the branch is not
\* found (KeyError on PandaPower, a non-zero error code on PSSE)
branch_idx(rows, branch) ==
    LET found ==
            {i \in 1..Len(rows) :
                /\ rows[i].from_bus = branch.from_number
                /\ rows[i].to_bus = branch.to_number
                /\ (backend = "psse" => rows[i].id = branch.id)}
    IN  IF found = {} THEN 0 ELSE Min(found)

\* Trafo.pp_idx / the row wf.brnint answers for; 0 when not found
trafo_idx(rows, element) ==
    LET found ==
            {i \in 1..Len(rows) :
                IF backend = "psse"
                THEN /\ rows[i].from_bus = element.from_number
                     /\ rows[i].to_bus = element.to_number
                     /\ rows[i].id = element.id
                ELSE \/ /\ rows[i].to_bus = element.from_number
                        /\ rows[i].from_bus = element.to_number
                     \/ /\ rows[i].from_bus = element.from_number
                        /\ rows[i].to_bus = element.to_number}
    IN  IF found = {} THEN 0 ELSE Min(found)

row_idx(kind, lines, trafos, element) ==
    IF kind = "branch" THEN branch_idx(lines, element) ELSE trafo_idx(trafos, element)

\* The exception of a failed lookup
LookupError == IF backend = "psse" THEN "PsseApiCallError" ELSE "KeyError"

\* Variant: every element counts as enabled
is_enabled_always(rows, idx) == TRUE

\* Branch.is_enabled / Trafo.is_enabled, for an element that is found
is_enabled(rows, idx) == rows[idx].in_service

set_in_service(rows, idx, status) == [rows EXCEPT ![idx].in_service = status]

\* Variant: the exit leaves the element out of service
restore_status_skipped(rows, idx) == rows

\* the `finally` of disable_branch / disable_trafo
restore_status(rows, idx) == set_in_service(rows, idx, TRUE)

\* disable_branch / disable_trafo up to the yield
disable(kind, lines, trafos, element) ==
    LET idx == row_idx(kind, lines, trafos, element)
    IN  IF idx = 0
        THEN [line |-> lines, trafo |-> trafos, is_disabled |-> FALSE, held_idx |-> 0]
        ELSE [line |-> IF kind = "branch" THEN set_in_service(lines, idx, FALSE)
                       ELSE lines,
              trafo |-> IF kind = "trafo" THEN set_in_service(trafos, idx, FALSE)
                        ELSE trafos,
              is_disabled |-> TRUE,
              held_idx |-> idx]

\* disable_branch / disable_trafo from the yield on: the outcomes of leaving
\* the `with` block while `raised` is in flight ("None": no exception).  On
\* PandaPower a KeyError thrown into the generator is caught by its
\* `except KeyError`, which yields again: contextlib raises RuntimeError, and
\* the `finally` runs only if the interpreter closes the generator
\* (Python 3.12 on) before the statement is left.
disable_exit(kind, lines, trafos, idx, disabled, raised) ==
    LET released ==
            [line |-> IF disabled /\ kind = "branch" THEN restore_status(lines, idx)
                      ELSE lines,
             trafo |-> IF disabled /\ kind = "trafo" THEN restore_status(trafos, idx)
                       ELSE trafos]
        kept == [line |-> lines, trafo |-> trafos]
    IN  IF backend = "pandapower" /\ raised = "KeyError"
        THEN {[net |-> released, exc |-> "RuntimeError"],
              [net |-> kept, exc |-> "RuntimeError"]}
        ELSE {[net |-> released, exc |-> raised]}

(***************************************************************************)
(* Loads and machines.                                                     *)
(***************************************************************************)
TEMP_ID == "Tm"
CONNECTION_ID == "CR"

RECURSIVE InsertByBus(_, _)
InsertByBus(rows, row) ==
    IF rows = <<>> \/ Head(rows).bus > row.bus
    THEN <<row>> \o rows
    ELSE <<Head(rows)>> \o InsertByBus(Tail(rows), row)

\* Bus.add_load / Bus.add_gen: pp.create_load appends a row; load_data_6
\* changes the load of that bus and id when there is one and adds it
\* otherwise, the table staying ordered by bus number
add_subsystem(rows, bus_number, mva, id) ==
    LET row == [bus |-> bus_number, name |-> id, mva |-> mva]
    IN  IF backend = "psse"
        THEN IF \E i \in 1..Len(rows) : rows[i].bus = bus_number /\ rows[i].name = id
             THEN [i \in 1..Len(rows) |->
                      IF rows[i].bus = bus_number /\ rows[i].name = id
                      THEN row ELSE rows[i]]
             ELSE InsertByBus(rows, row)
        ELSE Append(rows, row)

\* Variant: the temporary subsystem is never deleted
remove_temp_subsystem_noop(rows, bus_number) == rows

\* TemporaryBusLoad.__exit__ / TemporaryBusMachine.__exit__: purgload of the
\* bus and id on PSSE, a drop of every row named "Tm" on PandaPower
remove_temp_subsystem(rows, bus_number) ==
    IF backend = "psse"
    THEN SelectSeq(rows, LAMBDA row : ~(row.bus = bus_number /\ row.name = TEMP_ID))
    ELSE SelectSeq(rows, LAMBDA row : row.name # TEMP_ID)

(***************************************************************************)
(* reload_case: open_case, then apply_connection_scenario.                 *)
(***************************************************************************)
RECURSIVE sort_connection_scenario(_)
sort_connection_scenario(connections) ==
    IF connections = <<>>
    THEN <<>>
    ELSE LET lowest == Min({connections[i].bus_number : i \in 1..Len(connections)})
             first == CHOOSE i \in 1..Len(connections) :
                          connections[i].bus_number = lowest
         IN  <<connections[first]>>
             \o sort_connection_scenario(
                    SelectSeq(connections, LAMBDA c : c.bus_number # lowest))

\* Variant: the connection scenario is not applied
apply_connection_scenario_skipped(buses, connections, loads, gens) ==
    [load |-> loads, sgen |-> gens]

RECURSIVE apply_connection_scenario(_, _, _, _)
apply_connection_scenario(buses, connections, loads, gens) ==
    IF buses = <<>>
    THEN [load |-> loads, sgen |-> gens]
    ELSE IF connections # <<>> /\ Head(buses).number = Head(connections).bus_number
         THEN LET connection == Head(connections)
                  loads2 == IF connection.load # None
                            THEN add_subsystem(loads, Head(buses).number,
                                               connection.load, CONNECTION_ID)
                            ELSE loads
                  gens2 == IF connection.gen # None
                           THEN add_subsystem(gens, Head(buses).number,
                                              connection.gen, CONNECTION_ID)
                           ELSE gens
              IN  apply_connection_scenario(Tail(buses), Tail(connections), loads2, gens2)
         ELSE apply_connection_scenario(Tail(buses), connections, loads, gens)

reload_case(c, cfg) ==
    LET added == apply_connection_scenario(
                     c.bus, sort_connection_scenario(cfg.connection_scenario),
                     c.load, c.gen)
    IN  [line |-> c.line, trafo |-> c.trafo, load |-> added.load, sgen |-> added.sgen]

(***************************************************************************)
(* BusBase.load_mva / gen_mva: the sum over the records of the bus.  On    *)
(* PSSE the scan stops at the first record whose bus number is lower than  *)
(* or equal to the number of the bus.                                      *)
(***************************************************************************)
Plus(a, b) == Mva(a.re + b.re, a.im + b.im)
Neg(a) == Mva(0 - a.re, 0 - a.im)
\* Variant: half the upper limit, whatever the lower limit
Middle_of_upper(a, b) == Mva(b.re \div 2, b.im \div 2)

\* Variant: half the width of the interval instead of its midpoint
Middle_half_width(a, b) == Mva((b.re - a.re) \div 2, (b.im - a.im) \div 2)

\* (lower + upper) / 2; the limits of the model are multiples of 4, which
\* the halvings of a search of up to three probes divide exactly
Middle(a, b) == Mva((a.re + b.re) \div 2, (a.im + b.im) \div 2)

RECURSIVE subsystem_mva(_, _)
subsystem_mva(rows, number) ==
    IF rows = <<>>
    THEN ZeroMva
    ELSE IF backend = "psse" /\ Head(rows).bus <= number
         THEN ZeroMva
         ELSE IF Head(rows).bus = number
              THEN Plus(Head(rows).mva, subsystem_mva(Tail(rows), number))
              ELSE subsystem_mva(Tail(rows), number)

(***************************************************************************)
(* LimitingFactor and CapacityAnalysisStats.                               *)
(***************************************************************************)
LimitingFactor(violations_found, ss) == [v |-> violations_found, ss |-> ss]

AppendAt(stats, key, entry) ==
    IF key \in DOMAIN stats
    THEN [stats EXCEPT ![key] = Append(@, entry)]
    ELSE stats @@ (key :> <<entry>>)

\* Variant: only the last failure of a bus is kept
update_keeps_last(fs, cs, kind, bus_number, mva, lf) ==
    IF lf = None
    THEN [feasibility_stats |-> fs, contingency_stats |-> cs]
    ELSE LET power_mva == IF kind = "load" THEN mva ELSE Neg(mva)
         IN  [feasibility_stats |->
                  (bus_number :> <<[power_mva |-> power_mva, lf |-> lf]>>) @@ fs,
              contingency_stats |->
                  IF lf.ss # None
                  THEN AppendAt(cs, <<lf.ss, bus_number>>,
                                [power_mva |-> power_mva, v |-> lf.v])
                  ELSE cs]

\* CapacityAnalysisStats.update
update(fs, cs, kind, bus_number, mva, lf) ==
    IF lf = None
    THEN [feasibility_stats |-> fs, contingency_stats |-> cs]
    ELSE LET power_mva == IF kind = "load" THEN mva ELSE Neg(mva)
         IN  [feasibility_stats |->
                  AppendAt(fs, bus_number, [power_mva |-> power_mva, lf |-> lf]),
              contingency_stats |->
                  IF lf.ss # None
                  THEN AppendAt(cs, <<lf.ss, bus_number>>,
                                [power_mva |-> power_mva, v |-> lf.v])
                  ELSE cs]

\* Variant: a reset that keeps what the collector holds
reset_skipped(stats) == stats

\* ViolationsStats.reset / CapacityAnalysisStats.reset: a new empty dict
reset(stats) == <<>>

\* Variant: the base case is never fatal
base_case_is_fatal_never(violations_found) == FALSE

\* Variant: any violation of the base case is fatal
base_case_is_fatal_on_any_violation(violations_found) ==
    violations_found # NO_VIOLATIONS

\* check_base_case_violations: `base_case_violations & Violations.NOT_CONVERGED`
base_case_is_fatal(violations_found) == NOT_CONVERGED \in violations_found

\* ViolationsStats.register_base_case_violations: the stats of the base-case
\* check are kept as the base-case violations of the run
register_base_case_violations(stats) == stats

\* Variant: the generator search runs whatever the generation of the bus
gen_search_is_due_without_generation(actual_gen_mva, load_available_mva) ==
    load_available_mva # ZeroMva

\* bus_headroom: `actual_gen_mva != 0 and load_available_mva != 0j`
gen_search_is_due(actual_gen_mva, load_available_mva) ==
    actual_gen_mva # ZeroMva /\ load_available_mva # ZeroMva

\* Variant: the contingency check runs whatever the normal check found
normal_check_failed_never(violations_found) == FALSE

\* feasibility_check: `(violations := self.check_violations()) != NO_VIOLATIONS`
normal_check_failed(violations_found) == violations_found # NO_VIOLATIONS

\* Variant: the loop goes on after a check with violations
has_violations_never(violations_found) == FALSE

\* `violations != Violations.NO_VIOLATIONS`
has_violations(violations_found) == violations_found # NO_VIOLATIONS

(***************************************************************************)
(* The cases and configurations the runs of the model start from.          *)
(***************************************************************************)
CircuitId(i) == <<"1", "2", "3", "4">>[i]
NElements == NLines + NTrafos

CaseBuses == [i \in 1..NBuses |-> [number |-> i]]

\* one line per pair of neighbouring buses
RingLines ==
    [i \in 1..NLines |->
        [from_bus |-> i, to_bus |-> (i % NBuses) + 1, id |-> "1", in_service |-> TRUE]]

\* parallel circuits between the same two buses
ParallelLines ==
    [i \in 1..NLines |->
        [from_bus |-> 1, to_bus |-> 2, id |-> CircuitId(i), in_service |-> TRUE]]

TrafoRows ==
    [i \in 1..NTrafos |->
        [from_bus |-> 2, to_bus |-> 1, id |-> CircuitId(i), in_service |-> TRUE]]

\* what the outage of each element adds to the demand; at most one element
\* of a case matters
SeverityValues == {0, 3, 5, 7}
Severities ==
    {sev \in [1..NElements -> SeverityValues] :
        Cardinality({i \in 1..NElements : sev[i] # 0}) <= 1}

\* the element that is out of service in the case file (0: none)
Outages == 0..NElements

Injections ==
    {[load |-> <<>>, gen |-> <<>>],
     [load |-> <<[bus |-> 1, name |-> "1", mva |-> Mva(1, 2)]>>, gen |-> <<>>],
     [load |-> <<[bus |-> 1, name |-> "1", mva |-> Mva(1, 2)]>>,
      gen |-> <<[bus |-> 1, name |-> "1", mva |-> Mva(1, 2)]>>],
     [load |-> <<>>,
      gen |-> <<[bus |-> 1, name |-> "1", mva |-> Mva(2, 4)]>>]}

MakeCase(lines, sev, out, injections) ==
    [bus |-> CaseBuses,
     line |-> [i \in 1..NLines |-> [lines[i] EXCEPT !.in_service = (i # out)]],
     trafo |-> [i \in 1..NTrafos |->
                   [TrafoRows[i] EXCEPT !.in_service = (NLines + i # out)]],
     line_severity |-> [i \in 1..NLines |-> sev[i]],
     trafo_severity |-> [i \in 1..NTrafos |-> sev[NLines + i]],
     load |-> injections.load,
     gen |-> injections.gen]

Cases ==
    {MakeCase(lines, sev, out, injections) :
        lines \in {RingLines, ParallelLines}, sev \in Severities,
        out \in Outages, injections \in Injections}

Reverse(s) == [i \in 1..Len(s) |-> s[Len(s) + 1 - i]]

ContingencyScenario(branches, trafos) == [branches |-> branches, trafos |-> trafos]

\* a branch no case has
AbsentBranch == Branch(1, NBuses + 1, "1")

ProvidedScenarios(c) ==
    {ContingencyScenario(<<>>, <<>>),
     ContingencyScenario(Reverse(ElementsOf("branch", c.line)),
                         Reverse(ElementsOf("trafo", c.trafo))),
     ContingencyScenario(<<ElementsOf("branch", c.line)[1], AbsentBranch>>,
                         ElementsOf("trafo", c.trafo))}

ConnectionScenarios ==
    {<<>>,
     <<[bus_number |-> NBuses, load |-> Mva(1, 2), gen |-> None],
       [bus_number |-> 1, load |-> None, gen |-> Mva(1, 2)]>>}

DefaultConfig ==
    [entry |-> "buses_headroom",
     contingency_scenario |-> None,
     connection_scenario |-> <<>>,
     upper_load_limit_mva |-> Mva(4, 8),
     upper_gen_limit_mva |-> Mva(4, 8),
     max_iterations |-> 2,
     headroom_tolerance_p_mw |-> 1,
     selected_buses_ids |-> None,
     fault |-> "None"]

\* runs with each kind of contingency scenario
ScenarioConfigs(c) ==
    {[DefaultConfig EXCEPT !.contingency_scenario = s] :
        s \in ProvidedScenarios(c) \cup {None}}

\* test_get_contingency_scenario, the builder called a second time
BuilderConfig == [DefaultConfig EXCEPT !.entry = "get_contingency_scenario"]

\* runs with each shape of the search
SearchConfigs ==
    {[DefaultConfig EXCEPT !.max_iterations = m, !.headroom_tolerance_p_mw = t,
                           !.upper_load_limit_mva = u, !.upper_gen_limit_mva = u,
                           !.connection_scenario = cs,
                           !.selected_buses_ids = sel] :
        m \in {1, 3}, t \in {1, 3}, u \in {Mva(4, 8), Mva(8, 16)},
        cs \in ConnectionScenarios,
        sel \in {None, [kind |-> "ids", ids |-> {NBuses}]}}

\* runs whose connection scenario names a bus that the case does not have,
\* below or above the numbers of its buses
AbsentBusConfigs ==
    {[DefaultConfig EXCEPT !.max_iterations = 3, !.connection_scenario = cs] :
        cs \in {<<[bus_number |-> 1, load |-> None, gen |-> Mva(1, 2)],
                  [bus_number |-> 0, load |-> Mva(1, 2), gen |-> None]>>,
                <<[bus_number |-> NBuses + 1, load |-> Mva(1, 2), gen |-> None],
                  [bus_number |-> 1, load |-> None, gen |-> Mva(1, 2)]>>}}

\* runs in which the engine may raise during a check
FaultConfigs(c) ==
    {[DefaultConfig EXCEPT !.fault = f, !.contingency_scenario = s,
                           !.connection_scenario = cs] :
        f \in {"KeyError", "ValueError"},
        s \in {None, ContingencyScenario(Reverse(ElementsOf("branch", c.line)),
                                         Reverse(ElementsOf("trafo", c.trafo)))},
        cs \in ConnectionScenarios}

AllInService(c) ==
    /\ \A i \in 1..Len(c.line) : c.line[i].in_service
    /\ \A i \in 1..Len(c.trafo) : c.trafo[i].in_service

ConfigsFor(c) ==
    (IF c.load = <<>> /\ c.gen = <<>> THEN ScenarioConfigs(c) \cup {BuilderConfig} ELSE {})
    \cup (IF AllInService(c) /\ c.line = RingLines
          THEN SearchConfigs \cup AbsentBusConfigs ELSE {})
    \cup (IF AllInService(c) /\ c.gen = <<>> THEN FaultConfigs(c) ELSE {})

\* Stats left by earlier probes of the same process
EarlierStats ==
    {EmptyStats,
     append_violations(EmptyStats, BUS_OVERVOLTAGE, 110, <<112>>, <<0>>)}

\* the bus and the element that only an earlier run of the process analysed
EarlierBus == NBuses + 1
EarlierElement == Branch(EarlierBus, EarlierBus + 1, "1")

\* What the collectors hold when a run starts: nothing in a fresh process,
\* or the entries of an earlier run
EarlierRuns ==
    {[violations_stats |-> EmptyStats, feasibility_stats |-> <<>>,
      contingency_stats |-> <<>>],
     LET last == update(<<>>, <<>>, "load", EarlierBus, Mva(8, 16),
                        LimitingFactor({BUS_UNDERVOLTAGE}, EarlierElement))
     IN  [violations_stats |->
              append_violations(EmptyStats, BUS_OVERVOLTAGE, 110, <<112>>, <<0>>),
          feasibility_stats |-> last.feasibility_stats,
          contingency_stats |-> last.contingency_stats]}

(***************************************************************************)
(* The run: CapacityAnalyser(...).buses_headroom(), or the scenario        *)
(* builder called on an opened case.                                       *)
(***************************************************************************)
Init ==
    /\ backend \in {"psse", "pandapower"}
    /\ case \in Cases
    /\ config \in ConfigsFor(case)
    /\ line = <<>> /\ trafo = <<>> /\ load = <<>> /\ sgen = <<>>
    /\ res = None
    /\ power_flows = 0 /\ solves = 0
    /\ limits = NormalLimits /\ v = NO_VIOLATIONS /\ checks_run = <<>>
    /\ contingency_scenario = None
    /\ not_critical = ContingencyScenario(<<>>, <<>>)
    /\ built = <<>>
    /\ el_kind = "branch" /\ el_idx = 0
    /\ is_disabled = FALSE /\ held_idx = 0 /\ status_before = None
    /\ tested = <<>> /\ call_solves = 0
    /\ violations = NO_VIOLATIONS /\ limiting_factor = None /\ is_feasible = FALSE
    /\ temp_mva = ZeroMva /\ lower_limit_mva = ZeroMva /\ upper_limit_mva = ZeroMva
    /\ iterations_left = 0
    /\ tables_before = None
    /\ search_result = None
    /\ bus_idx = 0 /\ temp_kind = "load"
    /\ actual_mva = [load |-> ZeroMva, gen |-> ZeroMva]
    /\ load_result = None
    /\ headroom = <<>>
    /\ \E earlier \in EarlierRuns :
          /\ violations_stats = earlier.violations_stats
          /\ feasibility_stats = earlier.feasibility_stats
          /\ contingency_stats = earlier.contingency_stats
    /\ base_case_violations = NO_VIOLATIONS /\ base_case_stats = None
    /\ calls = <<>> /\ probes = <<>> /\ run_probes = <<>>
    /\ pc = "start"
    /\ exc = "None"

Rows(kind) == IF kind = "branch" THEN line ELSE trafo
Branches == ElementsOf("branch", line)
Trafos == ElementsOf("trafo", trafo)
Accessor(kind) == IF kind = "branch" THEN Branches ELSE Trafos
ScenarioElements(kind) ==
    IF kind = "branch" THEN contingency_scenario.branches
    ELSE contingency_scenario.trafos

\* run_solver and check_violations on the network as it is
Classify(lim) ==
    LET r == run_solver(case, line, trafo, load, sgen)
        c == check_violations(lim, r, violations_stats)
    IN  /\ res' = r
        /\ power_flows' = power_flows + 1
        /\ solves' = solves + 1
        /\ limits' = lim
        /\ v' = c.v
        /\ checks_run' = c.checks_run
        /\ violations_stats' = c.stats

Reload ==
    LET t == reload_case(case, config)
    IN  /\ line' = t.line
        /\ trafo' = t.trafo
        /\ load' = t.load
        /\ sgen' = t.sgen

\* the first lines of get_contingency_scenario
EnterBuilder ==
    /\ not_critical' = ContingencyScenario(<<>>, <<>>)
    /\ el_kind' = "branch"
    /\ el_idx' = 0
    /\ tested' = <<>>
    /\ call_solves' = solves

\* TestContingencyAnalysis.setUpClass, then get_contingency_scenario
OpenCase ==
    /\ pc = "start"
    /\ config.entry = "get_contingency_scenario"
    /\ line' = case.line /\ trafo' = case.trafo
    /\ load' = case.load /\ sgen' = case.gen
    /\ EnterBuilder
    /\ calls' = calls \o <<"open_case", "get_contingency_scenario">>
    /\ pc' = "sb_next"
    /\ UNCHANGED <<cfg_vars, base_case_vars, classifier_vars, contingency_scenario, built,
                   disable_vars,
                   check_vars, bisection_vars, tables_before, search_result, bus_vars,
                   capacity_stats_vars, exc>>

\* CapacityAnalyser.__init__ up to fdns_is_applicable
FdnsIsApplicable ==
    /\ pc = "start"
    /\ config.entry = "buses_headroom"
    /\ Reload
    /\ LET t == reload_case(case, config)
           r == run_solver(case, t.line, t.trafo, t.load, t.sgen)
           runs == IF r.converged THEN 1 ELSE 2
       IN  /\ res' = r
           /\ power_flows' = power_flows + runs
           /\ solves' = solves + runs
           /\ calls' = calls \o [i \in 1..runs |-> "open_case"]
    /\ pc' = "base_case"
    /\ UNCHANGED <<cfg_vars, base_case_vars, limits, v, checks_run, violations_stats, scenario_vars,
                   loop_vars, disable_vars, tested, call_solves, check_vars,
                   bisection_vars, tables_before, search_result, bus_vars,
                   capacity_stats_vars, exc>>

\* CapacityAnalyser.check_base_case_violations
CheckBaseCaseViolations ==
    /\ pc = "base_case"
    /\ LET r == run_solver(case, line, trafo, load, sgen)
           c == check_violations(NormalLimits, r, reset(violations_stats))
       IN  /\ res' = r
           /\ power_flows' = power_flows + 1
           /\ solves' = solves + 1
           /\ limits' = NormalLimits
           /\ v' = c.v
           /\ checks_run' = c.checks_run
           /\ violations_stats' = c.stats
           /\ base_case_violations' = c.v
           /\ IF base_case_is_fatal(c.v)
              THEN /\ pc' = "raised"
                   /\ exc' = "RuntimeError"
                   /\ base_case_stats' = base_case_stats
              ELSE /\ pc' = "scenario"
                   /\ exc' = exc
                   /\ base_case_stats' = register_base_case_violations(c.stats)
    /\ feasibility_stats' = reset(feasibility_stats)
    /\ contingency_stats' = reset(contingency_stats)
    /\ UNCHANGED <<cfg_vars, calls, net_vars, inj_vars, scenario_vars, loop_vars, disable_vars,
                   tested, call_solves, check_vars, bisection_vars, tables_before,
                   search_result, bus_vars>>

\* handle_empty_contingency_scenario with a scenario of the configuration
UseProvidedScenario ==
    /\ pc = "scenario"
    /\ config.contingency_scenario # None
    /\ contingency_scenario' = config.contingency_scenario
    /\ pc' = "ready"
    /\ UNCHANGED <<cfg_vars, base_case_vars, calls, net_vars, inj_vars, classifier_vars, not_critical, built,
                   loop_vars, disable_vars, tested, call_solves, check_vars,
                   bisection_vars, tables_before, search_result, bus_vars,
                   capacity_stats_vars, exc>>

\* handle_empty_contingency_scenario calling get_contingency_scenario
BuildScenario ==
    /\ pc = "scenario"
    /\ config.contingency_scenario = None
    /\ EnterBuilder
    /\ calls' = Append(calls, "get_contingency_scenario")
    /\ pc' = "sb_next"
    /\ UNCHANGED <<cfg_vars, base_case_vars, net_vars, inj_vars, classifier_vars, contingency_scenario,
                   built, disable_vars, check_vars, bisection_vars, tables_before,
                   search_result, bus_vars, capacity_stats_vars, exc>>

(***************************************************************************)
(* get_contingency_scenario: branch_is_not_critical for every branch of    *)
(* Branches(), then trafo_is_not_critical for every transformer of         *)
(* Trafos().                                                               *)
(***************************************************************************)
Element(elements) == elements[el_idx + 1]

\* the steps of entering `with disable_branch(...)` / `with disable_trafo(...)`
EnterDisable(element) ==
    LET d == disable(el_kind, line, trafo, element)
    IN  /\ line' = d.line
        /\ trafo' = d.trafo
        /\ is_disabled' = d.is_disabled
        /\ held_idx' = d.held_idx
        /\ status_before' = [line |-> line, trafo |-> trafo]

\* the record of one N-1 check: the element removed and the flags found
Tested(element, found) ==
    [kind |-> el_kind, element |-> element, row |-> held_idx, v |-> found]

\* is_enabled() is False: branch_is_not_critical returns False
SbSkip ==
    /\ pc = "sb_next"
    /\ el_idx < Len(Accessor(el_kind))
    /\ ~is_enabled(Rows(el_kind),
                   row_idx(el_kind, line, trafo, Element(Accessor(el_kind))))
    /\ el_idx' = el_idx + 1
    /\ UNCHANGED <<cfg_vars, base_case_vars, calls, net_vars, inj_vars, classifier_vars, scenario_vars, el_kind,
                   disable_vars, tested, call_solves, check_vars, bisection_vars,
                   tables_before, search_result, bus_vars, capacity_stats_vars, pc,
                   exc>>

SbDisable ==
    /\ pc = "sb_next"
    /\ el_idx < Len(Accessor(el_kind))
    /\ is_enabled(Rows(el_kind),
                  row_idx(el_kind, line, trafo, Element(Accessor(el_kind))))
    /\ EnterDisable(Element(Accessor(el_kind)))
    /\ pc' = "sb_disabled"
    /\ UNCHANGED <<cfg_vars, base_case_vars, calls, inj_vars, classifier_vars, scenario_vars, loop_vars,
                   tested, call_solves, check_vars, bisection_vars, tables_before,
                   search_result, bus_vars, capacity_stats_vars, exc>>

\* check_contingency_limits_violations() under `if is_disabled:`
SbCheck ==
    /\ pc = "sb_disabled"
    /\ IF is_disabled
       THEN /\ Classify(ContingencyLimits)
            /\ tested' = Append(tested, Tested(Element(Accessor(el_kind)), v'))
       ELSE UNCHANGED <<classifier_vars, tested>>
    /\ pc' = "sb_exit"
    /\ UNCHANGED <<cfg_vars, base_case_vars, calls, net_vars, inj_vars, scenario_vars, loop_vars, disable_vars,
                   call_solves, check_vars, bisection_vars, tables_before,
                   search_result, bus_vars, capacity_stats_vars, exc>>

\* the engine raises during the check
SbCheckRaises ==
    /\ pc = "sb_disabled"
    /\ config.fault # "None"
    /\ exc' = config.fault
    /\ pc' = "sb_exit"
    /\ UNCHANGED <<cfg_vars, base_case_vars, calls, net_vars, inj_vars, classifier_vars, scenario_vars,
                   loop_vars, disable_vars, tested, call_solves, check_vars,
                   bisection_vars, tables_before, search_result, bus_vars,
                   capacity_stats_vars>>

\* leaving the `with` block, and the element joining the scenario or not
SbExit ==
    /\ pc = "sb_exit"
    /\ \E out \in disable_exit(el_kind, line, trafo, held_idx, is_disabled, exc) :
          /\ line' = out.net.line
          /\ trafo' = out.net.trafo
          /\ exc' = out.exc
          /\ IF out.exc = "None"
             THEN /\ not_critical' =
                        IF is_disabled /\ v = NO_VIOLATIONS
                        THEN IF el_kind = "branch"
                             THEN [not_critical EXCEPT
                                      !.branches = Append(@, Element(Branches))]
                             ELSE [not_critical EXCEPT
                                      !.trafos = Append(@, Element(Trafos))]
                        ELSE not_critical
                  /\ el_idx' = el_idx + 1
                  /\ pc' = "sb_next"
             ELSE /\ pc' = "raised"
                  /\ UNCHANGED <<not_critical, el_idx>>
    /\ is_disabled' = FALSE
    /\ held_idx' = 0
    /\ UNCHANGED <<cfg_vars, base_case_vars, calls, inj_vars, classifier_vars, contingency_scenario, built,
                   el_kind, status_before, tested, call_solves, check_vars,
                   bisection_vars, tables_before, search_result, bus_vars,
                   capacity_stats_vars>>

SbNextGroup ==
    /\ pc = "sb_next"
    /\ el_kind = "branch"
    /\ el_idx = Len(Branches)
    /\ el_kind' = "trafo"
    /\ el_idx' = 0
    /\ UNCHANGED <<cfg_vars, base_case_vars, calls, net_vars, inj_vars, classifier_vars, scenario_vars,
                   disable_vars, tested, call_solves, check_vars, bisection_vars,
                   tables_before, search_result, bus_vars, capacity_stats_vars, pc,
                   exc>>

SbReturn ==
    /\ pc = "sb_next"
    /\ el_kind = "trafo"
    /\ el_idx = Len(Trafos)
    /\ built' = Append(built, not_critical)
    /\ calls' = Append(calls, "get_contingency_scenario returned")
    /\ pc' = "sb_returned"
    /\ UNCHANGED <<cfg_vars, base_case_vars, net_vars, inj_vars, classifier_vars, contingency_scenario,
                   not_critical, loop_vars, disable_vars, tested, call_solves,
                   check_vars, bisection_vars, tables_before, search_result, bus_vars,
                   capacity_stats_vars, exc>>

\* handle_empty_contingency_scenario after the builder: reload_case
HandleBuiltScenario ==
    /\ pc = "sb_returned"
    /\ config.entry = "buses_headroom"
    /\ contingency_scenario' = built[Len(built)]
    /\ Reload
    /\ calls' = Append(calls, "open_case")
    /\ pc' = "ready"
    /\ UNCHANGED <<cfg_vars, base_case_vars, classifier_vars, not_critical, built, loop_vars,
                   disable_vars, tested, call_solves, check_vars, bisection_vars,
                   tables_before, search_result, bus_vars, capacity_stats_vars, exc>>

\* the builder called again on the case as the first call left it
BuildAgain ==
    /\ pc = "sb_returned"
    /\ config.entry = "get_contingency_scenario"
    /\ Len(built) < 2
    /\ EnterBuilder
    /\ calls' = Append(calls, "get_contingency_scenario")
    /\ pc' = "sb_next"
    /\ UNCHANGED <<cfg_vars, base_case_vars, net_vars, inj_vars, classifier_vars, contingency_scenario,
                   built, disable_vars, check_vars, bisection_vars, tables_before,
                   search_result, bus_vars, capacity_stats_vars, exc>>

BuilderDone ==
    /\ pc = "sb_returned"
    /\ config.entry = "get_contingency_scenario"
    /\ Len(built) = 2
    /\ pc' = "done"
    /\ UNCHANGED <<cfg_vars, base_case_vars, calls, net_vars, inj_vars, classifier_vars, scenario_vars,
                   loop_vars, disable_vars, tested, call_solves, check_vars,
                   bisection_vars, tables_before, search_result, bus_vars,
                   capacity_stats_vars, exc>>

(***************************************************************************)
(* CapacityAnalyser.buses_headroom and bus_headroom.                       *)
(***************************************************************************)
Bus == case.bus[bus_idx + 1]

Selected(bus) ==
    IF config.selected_buses_ids = None
    THEN TRUE
    ELSE bus.number \in config.selected_buses_ids.ids

BusHeadroomRecord(load_found, gen_found) ==
    [bus |-> Bus.number,
     actual_load_mva |-> actual_mva.load,
     actual_gen_mva |-> actual_mva.gen,
     load_avail_mva |-> load_found.avail,
     gen_avail_mva |-> gen_found.avail,
     load_lf |-> load_found.lf,
     gen_lf |-> gen_found.lf]

\* Variant: both parts of the powers must be within the tolerance
is_within_tolerance_in_both_parts(lower, upper, tolerance) ==
    upper.re - lower.re < tolerance /\ upper.im - lower.im < tolerance

\* max_power_available_mva:
\* `upper_limit_mva.real - lower_limit_mva.real < self._headroom_tolerance_p_mw`
is_within_tolerance(lower, upper, tolerance) == upper.re - lower.re < tolerance

\* Variant: the upper limit is never returned at once
upper_limit_is_available_never(first, feasible) == FALSE

\* max_power_available_mva: `if is_feasible: return upper_limit_mva, ...`
\* after the probe of the upper limit
upper_limit_is_available(first, feasible) == first /\ feasible

\* Variant: the probe of the upper limit is not subtracted
probes_allowed_with_full_range(max_iterations) == max_iterations + 1

\* max_power_available_mva: the probe of the upper limit and the rounds of
\* `for _ in range(self._max_iterations - 1)`
probes_allowed(max_iterations) ==
    1 + (IF max_iterations > 1 THEN max_iterations - 1 ELSE 0)

\* the first lines of max_power_available_mva
EnterSearch(kind, upper, earlier_calls) ==
    /\ temp_kind' = kind
    /\ lower_limit_mva' = ZeroMva
    /\ upper_limit_mva' = upper
    /\ temp_mva' = upper
    /\ iterations_left' = probes_allowed(config.max_iterations)
    /\ probes' = <<>>
    /\ run_probes' = run_probes
    /\ calls' = Append(earlier_calls, "max_power_available_mva")

BusesHeadroom ==
    /\ pc = "ready"
    /\ power_flows' = 0
    /\ violations_stats' = reset(violations_stats)
    /\ bus_idx' = 0
    /\ headroom' = <<>>
    /\ pc' = "bus"
    /\ UNCHANGED <<cfg_vars, base_case_vars, calls, net_vars, inj_vars, res, solves, limits, v, checks_run,
                   scenario_vars, loop_vars, disable_vars, tested, call_solves,
                   check_vars, bisection_vars, tables_before, search_result, temp_kind,
                   actual_mva, load_result, capacity_stats_vars, exc>>

BusSkip ==
    /\ pc = "bus"
    /\ bus_idx < Len(case.bus)
    /\ ~Selected(Bus)
    /\ bus_idx' = bus_idx + 1
    /\ UNCHANGED <<cfg_vars, base_case_vars, calls, net_vars, inj_vars, classifier_vars, scenario_vars,
                   loop_vars, disable_vars, tested, call_solves, check_vars,
                   bisection_vars, tables_before, search_result, temp_kind, actual_mva,
                   load_result, headroom, capacity_stats_vars, pc, exc>>

BusHeadroom ==
    /\ pc = "bus"
    /\ bus_idx < Len(case.bus)
    /\ Selected(Bus)
    /\ actual_mva' = [load |-> subsystem_mva(load, Bus.number),
                      gen |-> subsystem_mva(sgen, Bus.number)]
    /\ EnterSearch("load", config.upper_load_limit_mva, calls)
    /\ pc' = "probe"
    /\ UNCHANGED <<cfg_vars, base_case_vars, net_vars, inj_vars, classifier_vars, scenario_vars,
                   loop_vars, disable_vars, tested, call_solves, check_vars,
                   tables_before, search_result, bus_idx, load_result, headroom,
                   capacity_stats_vars, exc>>

BusesHeadroomReturn ==
    /\ pc = "bus"
    /\ bus_idx = Len(case.bus)
    /\ pc' = "done"
    /\ UNCHANGED <<cfg_vars, base_case_vars, calls, net_vars, inj_vars, classifier_vars, scenario_vars,
                   loop_vars, disable_vars, tested, call_solves, check_vars,
                   bisection_vars, tables_before, search_result, bus_vars,
                   capacity_stats_vars, exc>>

(***************************************************************************)
(* One probe: `with temp_subsystem(mva): feasibility_check()`.             *)
(***************************************************************************)
\* TemporaryBusLoad.__enter__ / TemporaryBusMachine.__enter__
TempEnter ==
    /\ pc = "probe"
    /\ tables_before' = [load |-> load, sgen |-> sgen]
    /\ IF temp_kind = "load"
       THEN /\ load' = add_subsystem(load, Bus.number, temp_mva, TEMP_ID)
            /\ sgen' = sgen
       ELSE /\ sgen' = add_subsystem(sgen, Bus.number, temp_mva, TEMP_ID)
            /\ load' = load
    /\ calls' = Append(calls, "feasibility_check")
    /\ pc' = "normal_check"
    /\ UNCHANGED <<cfg_vars, base_case_vars, net_vars, classifier_vars, scenario_vars, loop_vars,
                   disable_vars, tested, call_solves, check_vars, bisection_vars,
                   search_result, bus_vars, capacity_stats_vars, exc>>

\* feasibility_check: the check against the normal limits
NormalCheck ==
    /\ pc = "normal_check"
    /\ Classify(NormalLimits)
    /\ IF normal_check_failed(v')
       THEN /\ is_feasible' = FALSE
            /\ limiting_factor' = LimitingFactor(v', None)
            /\ calls' = Append(calls, "check_violations")
            /\ pc' = "temp_exit"
            /\ UNCHANGED <<violations, loop_vars, tested, call_solves>>
       ELSE /\ violations' = NO_VIOLATIONS
            /\ calls' = calls \o <<"check_violations", "contingency_check">>
            /\ el_kind' = "branch"
            /\ el_idx' = 0
            /\ tested' = <<>>
            /\ call_solves' = solves'
            /\ pc' = "cc_next"
            /\ UNCHANGED <<is_feasible, limiting_factor>>
    /\ UNCHANGED <<cfg_vars, base_case_vars, net_vars, inj_vars, scenario_vars, disable_vars,
                   bisection_vars, tables_before, search_result, bus_vars,
                   capacity_stats_vars, exc>>

NormalCheckRaises ==
    /\ pc = "normal_check"
    /\ config.fault # "None"
    /\ exc' = config.fault
    /\ pc' = "temp_exit"
    /\ UNCHANGED <<cfg_vars, base_case_vars, calls, net_vars, inj_vars, classifier_vars, scenario_vars,
                   loop_vars, disable_vars, tested, call_solves, check_vars,
                   bisection_vars, tables_before, search_result, bus_vars,
                   capacity_stats_vars>>

(***************************************************************************)
(* get_contingency_limiting_factor.                                        *)
(***************************************************************************)
\* is_enabled() of an element the engine does not know raises
CcLookupRaises ==
    /\ pc = "cc_next"
    /\ el_idx < Len(ScenarioElements(el_kind))
    /\ row_idx(el_kind, line, trafo, Element(ScenarioElements(el_kind))) = 0
    /\ exc' = LookupError
    /\ pc' = "temp_exit"
    /\ UNCHANGED <<cfg_vars, base_case_vars, calls, net_vars, inj_vars, classifier_vars, scenario_vars,
                   loop_vars, disable_vars, tested, call_solves, check_vars,
                   bisection_vars, tables_before, search_result, bus_vars,
                   capacity_stats_vars>>

CcSkip ==
    /\ pc = "cc_next"
    /\ el_idx < Len(ScenarioElements(el_kind))
    /\ row_idx(el_kind, line, trafo, Element(ScenarioElements(el_kind))) # 0
    /\ ~is_enabled(Rows(el_kind),
                   row_idx(el_kind, line, trafo, Element(ScenarioElements(el_kind))))
    /\ el_idx' = el_idx + 1
    /\ UNCHANGED <<cfg_vars, base_case_vars, calls, net_vars, inj_vars, classifier_vars, scenario_vars, el_kind,
                   disable_vars, tested, call_solves, check_vars, bisection_vars,
                   tables_before, search_result, bus_vars, capacity_stats_vars, pc,
                   exc>>

CcDisable ==
    /\ pc = "cc_next"
    /\ el_idx < Len(ScenarioElements(el_kind))
    /\ row_idx(el_kind, line, trafo, Element(ScenarioElements(el_kind))) # 0
    /\ is_enabled(Rows(el_kind),
                  row_idx(el_kind, line, trafo, Element(ScenarioElements(el_kind))))
    /\ EnterDisable(Element(ScenarioElements(el_kind)))
    /\ calls' = Append(calls, IF el_kind = "branch" THEN "disable_branch"
                               ELSE "disable_trafo")
    /\ pc' = "cc_disabled"
    /\ UNCHANGED <<cfg_vars, base_case_vars, inj_vars, classifier_vars, scenario_vars, loop_vars,
                   tested, call_solves, check_vars, bisection_vars, tables_before,
                   search_result, bus_vars, capacity_stats_vars, exc>>

\* `violations |= check_violations(...)`
CcCheck ==
    /\ pc = "cc_disabled"
    /\ Classify(ContingencyLimits)
    /\ violations' = violations \cup v'
    /\ tested' = Append(tested, Tested(Element(ScenarioElements(el_kind)), v'))
    /\ pc' = "cc_exit"
    /\ UNCHANGED <<cfg_vars, base_case_vars, calls, net_vars, inj_vars, scenario_vars, loop_vars, disable_vars,
                   call_solves, limiting_factor, is_feasible, bisection_vars,
                   tables_before, search_result, bus_vars, capacity_stats_vars, exc>>

CcCheckRaises ==
    /\ pc = "cc_disabled"
    /\ config.fault # "None"
    /\ exc' = config.fault
    /\ pc' = "cc_exit"
    /\ UNCHANGED <<cfg_vars, base_case_vars, calls, net_vars, inj_vars, classifier_vars, scenario_vars,
                   loop_vars, disable_vars, tested, call_solves, check_vars,
                   bisection_vars, tables_before, search_result, bus_vars,
                   capacity_stats_vars>>

\* leaving the `with` block: by the return on violations, by the end of the
\* block, or by the exception
CcExit ==
    /\ pc = "cc_exit"
    /\ \E out \in disable_exit(el_kind, line, trafo, held_idx, is_disabled, exc) :
          /\ line' = out.net.line
          /\ trafo' = out.net.trafo
          /\ exc' = out.exc
          /\ IF out.exc # "None"
             THEN /\ pc' = "temp_exit"
                  /\ UNCHANGED <<limiting_factor, el_idx>>
             ELSE IF has_violations(violations)
                  THEN /\ limiting_factor' =
                             LimitingFactor(violations,
                                            Element(ScenarioElements(el_kind)))
                       /\ pc' = "cc_returned"
                       /\ el_idx' = el_idx
                  ELSE /\ el_idx' = el_idx + 1
                       /\ pc' = "cc_next"
                       /\ limiting_factor' = limiting_factor
    /\ is_disabled' = FALSE
    /\ held_idx' = 0
    /\ UNCHANGED <<cfg_vars, base_case_vars, calls, inj_vars, classifier_vars, scenario_vars, el_kind,
                   status_before, tested, call_solves, violations, is_feasible,
                   bisection_vars, tables_before, search_result, bus_vars,
                   capacity_stats_vars>>

CcNextGroup ==
    /\ pc = "cc_next"
    /\ el_kind = "branch"
    /\ el_idx = Len(contingency_scenario.branches)
    /\ el_kind' = "trafo"
    /\ el_idx' = 0
    /\ UNCHANGED <<cfg_vars, base_case_vars, calls, net_vars, inj_vars, classifier_vars, scenario_vars,
                   disable_vars, tested, call_solves, check_vars, bisection_vars,
                   tables_before, search_result, bus_vars, capacity_stats_vars, pc,
                   exc>>

\* `return LimitingFactor(violations, None)`
CcReturn ==
    /\ pc = "cc_next"
    /\ el_kind = "trafo"
    /\ el_idx = Len(contingency_scenario.trafos)
    /\ limiting_factor' = LimitingFactor(violations, None)
    /\ pc' = "cc_returned"
    /\ UNCHANGED <<cfg_vars, base_case_vars, calls, net_vars, inj_vars, classifier_vars, scenario_vars,
                   loop_vars, disable_vars, tested, call_solves, violations,
                   is_feasible, bisection_vars, tables_before, search_result, bus_vars,
                   capacity_stats_vars, exc>>

\* feasibility_check after contingency_check
FeasibilityCheck ==
    /\ pc = "cc_returned"
    /\ is_feasible' = (limiting_factor.v = NO_VIOLATIONS)
    /\ limiting_factor' =
           IF limiting_factor.v # NO_VIOLATIONS THEN limiting_factor ELSE None
    /\ pc' = "temp_exit"
    /\ UNCHANGED <<cfg_vars, base_case_vars, calls, net_vars, inj_vars, classifier_vars, scenario_vars,
                   loop_vars, disable_vars, tested, call_solves, violations,
                   bisection_vars, tables_before, search_result, bus_vars,
                   capacity_stats_vars, exc>>

\* TemporaryBusLoad.__exit__ / TemporaryBusMachine.__exit__
TempExit ==
    /\ pc = "temp_exit"
    /\ IF temp_kind = "load"
       THEN /\ load' = remove_temp_subsystem(load, Bus.number)
            /\ sgen' = sgen
       ELSE /\ sgen' = remove_temp_subsystem(sgen, Bus.number)
            /\ load' = load
    /\ pc' = IF exc = "None" THEN "after_probe" ELSE "raised"
    /\ UNCHANGED <<cfg_vars, base_case_vars, calls, net_vars, classifier_vars, scenario_vars, loop_vars,
                   disable_vars, tested, call_solves, check_vars, bisection_vars,
                   tables_before, search_result, bus_vars, capacity_stats_vars, exc>>

(***************************************************************************)
(* max_power_available_mva after a probe, and bus_headroom after a search. *)
(***************************************************************************)
AfterProbe ==
    /\ pc = "after_probe"
    /\ LET first == probes = <<>>
           immediate == upper_limit_is_available(first, is_feasible)
           lower == IF ~first /\ is_feasible THEN temp_mva ELSE lower_limit_mva
           upper == IF ~first /\ ~is_feasible THEN temp_mva ELSE upper_limit_mva
           left == iterations_left - 1
           within == ~first /\ is_within_tolerance(lower, upper,
                                                   config.headroom_tolerance_p_mw)
           returns == immediate \/ within \/ left = 0
           stats == update(feasibility_stats, contingency_stats, temp_kind,
                           Bus.number, temp_mva, limiting_factor)
       IN  /\ lower_limit_mva' = lower
           /\ upper_limit_mva' = upper
           /\ iterations_left' = left
           /\ probes' = Append(probes, [mva |-> temp_mva, is_feasible |-> is_feasible,
                                        limiting_factor |-> limiting_factor])
           /\ run_probes' =
                  Append(run_probes,
                         [bus |-> Bus.number, kind |-> temp_kind, mva |-> temp_mva,
                          is_feasible |-> is_feasible,
                          limiting_factor |-> limiting_factor])
           /\ IF is_feasible
              THEN UNCHANGED <<capacity_stats_vars, net_vars, inj_vars, calls>>
              ELSE /\ feasibility_stats' = stats.feasibility_stats
                   /\ contingency_stats' = stats.contingency_stats
                   /\ Reload
                   /\ calls' = calls \o <<"update", "open_case">>
           /\ IF returns
              THEN /\ search_result' =
                         [avail |-> IF immediate THEN upper_limit_mva
                                    ELSE lower,
                          lf |-> limiting_factor]
                   /\ temp_mva' = temp_mva
                   /\ pc' = "search_returned"
              ELSE /\ search_result' = search_result
                   /\ temp_mva' = Middle(lower, upper)
                   /\ pc' = "probe"
    /\ tables_before' = None
    /\ UNCHANGED <<cfg_vars, base_case_vars, classifier_vars, scenario_vars, loop_vars, disable_vars,
                   tested, call_solves, check_vars, bus_vars, exc>>

SearchReturned ==
    /\ pc = "search_returned"
    /\ LET collapsed == /\ search_result.avail = ZeroMva
                        /\ search_result.lf # None
                        /\ search_result.lf.v = {NOT_CONVERGED}
           calls_so_far == IF collapsed THEN Append(calls, "open_case") ELSE calls
       IN  /\ IF collapsed THEN Reload ELSE UNCHANGED <<net_vars, inj_vars>>
           /\ IF temp_kind = "load"
              THEN /\ load_result' = search_result
                   /\ IF gen_search_is_due(actual_mva.gen, search_result.avail)
                      THEN /\ EnterSearch("gen", config.upper_gen_limit_mva,
                                          calls_so_far)
                           /\ pc' = "probe"
                           /\ UNCHANGED <<headroom, bus_idx>>
                      ELSE /\ headroom' =
                                 Append(headroom,
                                        BusHeadroomRecord(
                                            search_result,
                                            [avail |-> ZeroMva, lf |-> None]))
                           /\ bus_idx' = bus_idx + 1
                           /\ pc' = "bus"
                           /\ calls' = calls_so_far
                           /\ UNCHANGED <<bisection_vars, temp_kind>>
              ELSE /\ headroom' =
                         Append(headroom, BusHeadroomRecord(load_result, search_result))
                   /\ bus_idx' = bus_idx + 1
                   /\ pc' = "bus"
                   /\ calls' = calls_so_far
                   /\ UNCHANGED <<bisection_vars, temp_kind, load_result>>
    /\ UNCHANGED <<cfg_vars, base_case_vars, classifier_vars, scenario_vars, loop_vars, disable_vars,
                   tested, call_solves, check_vars, tables_before, search_result,
                   actual_mva, capacity_stats_vars, exc>>

Next ==
    \/ OpenCase
    \/ FdnsIsApplicable
    \/ CheckBaseCaseViolations
    \/ UseProvidedScenario
    \/ BuildScenario
    \/ SbSkip
    \/ SbDisable
    \/ SbCheck
    \/ SbCheckRaises
    \/ SbExit
    \/ SbNextGroup
    \/ SbReturn
    \/ HandleBuiltScenario
    \/ BuildAgain
    \/ BuilderDone
    \/ BusesHeadroom
    \/ BusSkip
    \/ BusHeadroom
    \/ BusesHeadroomReturn
    \/ TempEnter
    \/ NormalCheck
    \/ NormalCheckRaises
    \/ CcLookupRaises
    \/ CcSkip
    \/ CcDisable
    \/ CcCheck
    \/ CcCheckRaises
    \/ CcExit
    \/ CcNextGroup
    \/ CcReturn
    \/ FeasibilityCheck
    \/ TempExit
    \/ AfterProbe
    \/ SearchReturned

Spec == Init /\ [][Next]_vars

(***************************************************************************)
(* The classifier alone, as tests/test_violations_analysis.py drives it:   *)
(* a case is open, check_violations is called with one of the limit sets   *)
(* and the engine's solve ends in any outcome of SolverOutcomes.           *)
(***************************************************************************)
VmValues == {88, 90, 110, 112}
LoadingValues == {100, 121}
SwingPowerValues == {1000, 1001}

SolverOutcomes ==
    [converged : BOOLEAN,
     vm_pu : [1..NBuses -> VmValues],
     line_loading : [1..NLines -> LoadingValues],
     trafo_loading : [1..NTrafos -> LoadingValues],
     trafo3w_loading : [1..NTrafos3w -> LoadingValues],
     swing_p_mw : [1..NSwingBuses -> SwingPowerValues]]

Unsolved ==
    [converged |-> FALSE, vm_pu |-> <<>>, line_loading |-> <<>>,
     trafo_loading |-> <<>>, trafo3w_loading |-> <<>>, swing_p_mw |-> <<>>]

harness_vars ==
    <<cfg_vars, base_case_vars, calls, net_vars, inj_vars, power_flows, solves,
      scenario_vars, loop_vars,
      disable_vars, tested, call_solves, check_vars, bisection_vars, tables_before,
      search_result, bus_vars, capacity_stats_vars, exc>>

InitCV ==
    /\ backend = "pandapower"
    /\ case = MakeCase(RingLines, [i \in 1..NElements |-> 0], 0,
                       [load |-> <<>>, gen |-> <<>>])
    /\ config = DefaultConfig
    /\ line = <<>> /\ trafo = <<>> /\ load = <<>> /\ sgen = <<>>
    /\ res = Unsolved
    /\ power_flows = 0 /\ solves = 0
    /\ limits = NormalLimits /\ v = NO_VIOLATIONS /\ checks_run = <<>>
    /\ violations_stats \in EarlierStats
    /\ contingency_scenario = None
    /\ not_critical = ContingencyScenario(<<>>, <<>>)
    /\ built = <<>>
    /\ el_kind = "branch" /\ el_idx = 0
    /\ is_disabled = FALSE /\ held_idx = 0 /\ status_before = None
    /\ tested = <<>> /\ call_solves = 0
    /\ violations = NO_VIOLATIONS /\ limiting_factor = None /\ is_feasible = FALSE
    /\ temp_mva = ZeroMva /\ lower_limit_mva = ZeroMva /\ upper_limit_mva = ZeroMva
    /\ iterations_left = 0
    /\ tables_before = None
    /\ search_result = None
    /\ bus_idx = 0 /\ temp_kind = "load"
    /\ actual_mva = [load |-> ZeroMva, gen |-> ZeroMva]
    /\ load_result = None
    /\ headroom = <<>>
    /\ feasibility_stats = <<>> /\ contingency_stats = <<>>
    /\ base_case_violations = NO_VIOLATIONS /\ base_case_stats = None
    /\ calls = <<>> /\ probes = <<>> /\ run_probes = <<>>
    /\ pc = "cv_idle"
    /\ exc = "None"

\* check_violations(**limits): run_solver, then the classification
CvCheckViolations ==
    /\ pc = "cv_idle"
    /\ \E r \in SolverOutcomes, lim \in {NormalLimits, ContingencyLimits} :
          LET c == check_violations(lim, r, violations_stats)
          IN  /\ res' = r
              /\ limits' = lim
              /\ v' = c.v
              /\ checks_run' = c.checks_run
              /\ violations_stats' = c.stats
    /\ pc' = "cv_returned"
    /\ UNCHANGED harness_vars

\* The caller goes on to its next probe
CvNext ==
    /\ pc = "cv_returned"
    /\ pc' = "cv_idle"
    /\ res' = Unsolved
    /\ limits' = NormalLimits
    /\ v' = NO_VIOLATIONS
    /\ checks_run' = <<>>
    /\ violations_stats' \in EarlierStats
    /\ UNCHANGED harness_vars

NextCV == CvCheckViolations \/ CvNext

SpecCV == InitCV /\ [][NextCV]_vars

(***************************************************************************)
(* Properties of the classifier (checked under SpecCV).                    *)
(***************************************************************************)
Exceeds(values, limit) == \E i \in 1..Len(values) : values[i] > limit
FallsBelow(values, limit) == \E i \in 1..Len(values) : values[i] < limit

\* The flag of a limit check is due: some element is strictly beyond the threshold
Triggered(violation, r, lim) ==
    CASE violation = BUS_OVERVOLTAGE -> Exceeds(r.vm_pu, lim.max_bus_voltage_pu)
      [] violation = BUS_UNDERVOLTAGE -> FallsBelow(r.vm_pu, lim.min_bus_voltage_pu)
      [] violation = BRANCH_LOADING -> Exceeds(r.line_loading, lim.max_branch_loading_pct)
      [] violation = TRAFO_LOADING -> Exceeds(r.trafo_loading, lim.max_trafo_loading_pct)
      [] violation = TRAFO_3W_LOADING -> Exceeds(r.trafo3w_loading, lim.max_trafo_loading_pct)
      [] violation = SWING_BUS_LOADING -> Exceeds(r.swing_p_mw, lim.max_swing_bus_power_p_mw)
      [] OTHER -> FALSE

SixChecks ==
    <<BUS_OVERVOLTAGE, BUS_UNDERVOLTAGE, BRANCH_LOADING, TRAFO_LOADING,
      TRAFO_3W_LOADING, SWING_BUS_LOADING>>

\* C1: when the solve did not converge, check_violations returns exactly
\* NOT_CONVERGED, evaluates none of the six limit checks and leaves
\* ViolationsStats as it was before the call.
C1_NotConvergedAlone ==
    [][(pc = "cv_idle" /\ pc' = "cv_returned" /\ ~res'.converged)
        => /\ v' = {NOT_CONVERGED}
           /\ checks_run' = <<>>
           /\ violations_stats' = violations_stats]_vars

\* C1 witness: a non-converged probe whose stale bus voltages are beyond the
\* limit, in a process whose stats already hold entries of an earlier probe.
C1_Witness ==
    /\ pc = "cv_returned"
    /\ ~res.converged
    /\ Exceeds(res.vm_pu, limits.max_bus_voltage_pu)
    /\ violations_stats # EmptyStats
    /\ v = {NOT_CONVERGED}

\* C2: when the solve converged, the returned flag set holds a flag exactly
\* when at least one element violates that check's own threshold; all six
\* checks are evaluated, in order, whatever the earlier ones found; the
\* result is NO_VIOLATIONS exactly when no check triggers.
C2_FlagsAreUnionOfChecks ==
    (pc = "cv_returned" /\ res.converged)
        => /\ v = {f \in Violations : Triggered(f, res, limits)}
           /\ checks_run = SixChecks
           /\ (v = NO_VIOLATIONS <=> \A f \in Violations : ~Triggered(f, res, limits))

\* C2 witness: the first and the fifth check trigger, the four others do not.
C2_Witness ==
    /\ pc = "cv_returned"
    /\ res.converged
    /\ v = {BUS_OVERVOLTAGE, TRAFO_3W_LOADING}

\* The test of a limit check, strict
Strictly(violation, value, limit) ==
    IF violation = BUS_UNDERVOLTAGE THEN value < limit ELSE value > limit

ValuesOf(violation, r) ==
    CASE violation \in {BUS_OVERVOLTAGE, BUS_UNDERVOLTAGE} -> r.vm_pu
      [] violation = BRANCH_LOADING -> r.line_loading
      [] violation = TRAFO_LOADING -> r.trafo_loading
      [] violation = TRAFO_3W_LOADING -> r.trafo3w_loading
      [] violation = SWING_BUS_LOADING -> r.swing_p_mw

LimitOf(violation, lim) ==
    CASE violation = BUS_OVERVOLTAGE -> lim.max_bus_voltage_pu
      [] violation = BUS_UNDERVOLTAGE -> lim.min_bus_voltage_pu
      [] violation = BRANCH_LOADING -> lim.max_branch_loading_pct
      [] violation \in {TRAFO_LOADING, TRAFO_3W_LOADING} -> lim.max_trafo_loading_pct
      [] violation = SWING_BUS_LOADING -> lim.max_swing_bus_power_p_mw

\* C3: all limit tests are strict.  An element whose value equals its
\* threshold is never recorded as violating and does not set the flag: every
\* value in ViolationsStats is strictly beyond the limit it is filed under,
\* and a category all of whose elements are at or within the threshold has
\* no flag in the result.
C3_StrictLimitTests ==
    (pc = "cv_returned" /\ res.converged)
        => /\ \A key \in DOMAIN violations_stats :
                \A j \in 1..Len(violations_stats[key]) :
                    Strictly(key[1], violations_stats[key][j], key[2])
           /\ \A f \in Violations \ {NOT_CONVERGED} :
                (\A i \in 1..Len(ValuesOf(f, res)) :
                    ~Strictly(f, ValuesOf(f, res)[i], LimitOf(f, limits)))
                => f \notin v

\* C3 witness: bus 0 sits exactly at the maximum voltage and bus 1 above it;
\* the flag is set, bus 1 is recorded and bus 0 is not.
C3_Witness ==
    /\ pc = "cv_returned"
    /\ res.converged
    /\ violations_stats # EmptyStats
    /\ res.vm_pu[1] = limits.max_bus_voltage_pu
    /\ res.vm_pu[2] > limits.max_bus_voltage_pu
    /\ BUS_OVERVOLTAGE \in v
    /\ <<BUS_OVERVOLTAGE, limits.max_bus_voltage_pu, 1>> \in DOMAIN violations_stats
    /\ <<BUS_OVERVOLTAGE, limits.max_bus_voltage_pu, 0>> \notin DOMAIN violations_stats

(***************************************************************************)
(* What the claims about the contingency check and the scenario builder    *)
(* are measured against: the case file itself.                             *)
(***************************************************************************)
CaseRows(kind) == IF kind = "branch" THEN case.line ELSE case.trafo

FoundInCase(kind, element) == row_idx(kind, case.line, case.trafo, element) # 0

EnabledInCase(kind, element) ==
    /\ FoundInCase(kind, element)
    /\ CaseRows(kind)[row_idx(kind, case.line, case.trafo, element)].in_service

\* the flags of a check under the contingency limits with row idx of the
\* case out of service and the loads and machines as they are
RowRemovalFlags(kind, idx) ==
    check_violations(
        ContingencyLimits,
        run_solver(case,
                   IF kind = "branch" THEN set_in_service(case.line, idx, FALSE)
                   ELSE case.line,
                   IF kind = "trafo" THEN set_in_service(case.trafo, idx, FALSE)
                   ELSE case.trafo,
                   load, sgen),
        EmptyStats).v

RemovalFlags(kind, element) ==
    RowRemovalFlags(kind, row_idx(kind, case.line, case.trafo, element))

\* the elements of the scenario in use: branches, then transformers
Visits ==
    [i \in 1..Len(contingency_scenario.branches) |->
        [kind |-> "branch", element |-> contingency_scenario.branches[i]]]
    \o [i \in 1..Len(contingency_scenario.trafos) |->
           [kind |-> "trafo", element |-> contingency_scenario.trafos[i]]]

EnabledVisits == SelectSeq(Visits, LAMBDA x : EnabledInCase(x.kind, x.element))

InContingencyCheck == pc \in {"cc_next", "cc_disabled", "cc_exit", "cc_returned"}

LastTested == tested[Len(tested)]

\* C4: get_contingency_limiting_factor checks the enabled elements of the
\* scenario in scenario order, branches before transformers, one solve for
\* each; it returns at the first element whose check shows any flag, with
\* exactly that check's flags and that element, and after that check it
\* disables no further element and runs no further solve.
C4_FirstViolationReturns ==
    InContingencyCheck =>
        /\ Len(tested) <= Len(EnabledVisits)
        /\ \A i \in 1..Len(tested) :
              /\ tested[i].kind = EnabledVisits[i].kind
              /\ tested[i].element = EnabledVisits[i].element
        /\ \A i \in 1..(Len(tested) - 1) : tested[i].v = NO_VIOLATIONS
        /\ pc \in {"cc_next", "cc_disabled"} =>
              \A i \in 1..Len(tested) : tested[i].v = NO_VIOLATIONS
        /\ solves = call_solves + Len(tested)
        /\ (pc = "cc_returned" /\ tested # <<>> /\ LastTested.v # NO_VIOLATIONS) =>
              limiting_factor = LimitingFactor(LastTested.v, LastTested.element)
        /\ (pc = "cc_returned" /\ limiting_factor.ss # None) =>
              /\ tested # <<>>
              /\ limiting_factor.v # NO_VIOLATIONS
              /\ limiting_factor = LimitingFactor(LastTested.v, LastTested.element)

\* a check returned at its second element and left a later one unvisited
C4_Witness ==
    /\ pc = "cc_returned"
    /\ limiting_factor.ss # None
    /\ Len(tested) >= 2
    /\ Len(tested) < Len(EnabledVisits)
    /\ tested[1].v = NO_VIOLATIONS

AllRemovalsClean ==
    \A i \in 1..Len(Visits) :
        EnabledInCase(Visits[i].kind, Visits[i].element)
            => RemovalFlags(Visits[i].kind, Visits[i].element) = NO_VIOLATIONS

\* C5: get_contingency_limiting_factor returns (NO_VIOLATIONS, None) exactly
\* when every enabled element of the scenario gives NO_VIOLATIONS when it
\* alone is removed; only enabled elements are ever solved for, and an empty
\* scenario gives (NO_VIOLATIONS, None) without a solve.
C5_CleanIffEveryRemovalClean ==
    pc = "cc_returned" =>
        /\ (limiting_factor = LimitingFactor(NO_VIOLATIONS, None)) <=> AllRemovalsClean
        /\ \A i \in 1..Len(tested) : EnabledInCase(tested[i].kind, tested[i].element)
        /\ solves - call_solves <= Len(EnabledVisits)
        /\ Visits = <<>> =>
              /\ limiting_factor = LimitingFactor(NO_VIOLATIONS, None)
              /\ solves = call_solves

\* a clean check of a scenario that holds an element out of service
C5_Witness ==
    /\ pc = "cc_returned"
    /\ limiting_factor = LimitingFactor(NO_VIOLATIONS, None)
    /\ tested # <<>>
    /\ \E i \in 1..Len(Visits) :
          /\ FoundInCase(Visits[i].kind, Visits[i].element)
          /\ ~EnabledInCase(Visits[i].kind, Visits[i].element)

\* the rows of a table that are in service and whose removal is clean
NotCriticalRows(kind) ==
    SelectSeq([i \in 1..Len(CaseRows(kind)) |-> i],
              LAMBDA i : /\ CaseRows(kind)[i].in_service
                         /\ RowRemovalFlags(kind, i) = NO_VIOLATIONS)

ExpectedScenario ==
    ContingencyScenario(
        [k \in 1..Len(NotCriticalRows("branch")) |->
            ElementsOf("branch", case.line)[NotCriticalRows("branch")[k]]],
        [k \in 1..Len(NotCriticalRows("trafo")) |->
            ElementsOf("trafo", case.trafo)[NotCriticalRows("trafo")[k]]])

\* C6: get_contingency_scenario returns exactly the branches and 2-winding
\* transformers that are in service in the base case and whose removal alone
\* gives NO_VIOLATIONS under the contingency limits, each group in the order
\* of its accessor; nothing else is in the scenario.
C6_ScenarioIsTheNotCriticalElements ==
    pc = "sb_returned" =>
        /\ built[Len(built)] = ExpectedScenario
        /\ \A i \in 1..Len(built[Len(built)].branches) :
              built[Len(built)].branches[i].kind = "Branch"
        /\ \A i \in 1..Len(built[Len(built)].trafos) :
              built[Len(built)].trafos[i].kind = "Trafo"

\* C7: two consecutive get_contingency_scenario calls on the same opened case
\* return equal scenarios, and a build leaves every element status as it was.
C7_BuilderIsIdempotent ==
    /\ (pc \in {"sb_returned", "done"} /\ Len(built) = 2) => built[1] = built[2]
    /\ pc = "sb_returned" => (line = case.line /\ trafo = case.trafo)

\* the builder ran twice and kept some elements and left out others
C7_Witness ==
    /\ pc = "done"
    /\ Len(built) = 2
    /\ built[2].branches # <<>>
    /\ Len(built[2].branches) + Len(built[2].trafos) < NElements

\* C8: an element that cannot be disabled (not found, out of service) is not
\* applicable: no lookup error ends the run, no such element is in a built
\* scenario, and none is named as the limiting element.
C8_UndisableableElementIsSkipped ==
    /\ config.fault = "None" => exc \notin {"KeyError", "PsseApiCallError"}
    /\ \A k \in 1..Len(built) :
          /\ \A i \in 1..Len(built[k].branches) :
                EnabledInCase("branch", built[k].branches[i])
          /\ \A i \in 1..Len(built[k].trafos) :
                EnabledInCase("trafo", built[k].trafos[i])
    /\ (limiting_factor # None /\ limiting_factor.ss # None) =>
          \/ EnabledInCase("branch", limiting_factor.ss)
          \/ EnabledInCase("trafo", limiting_factor.ss)

\* C9: once a scoped disable has been left, by the end of the block, by the
\* return on violations or by an exception of the check, every branch and
\* transformer has the status it had when the disable was entered.
C9_DisableIsUndoneOnExit ==
    (held_idx = 0 /\ status_before # None) =>
        /\ line = status_before.line
        /\ trafo = status_before.trafo

\* C10: once `with temp_subsystem(power)` has been left, normally or by an
\* exception of the feasibility check, the loads and machines are those of
\* before the entry: no temporary element is left, and the connection
\* scenario's and the case's own elements are as they were.
C10_TemporarySubsystemIsRemoved ==
    (tables_before # None /\ pc \in {"after_probe", "raised"}) =>
        /\ load = tables_before.load
        /\ sgen = tables_before.sgen
        /\ \A i \in 1..Len(load) : load[i].name # TEMP_ID
        /\ \A i \in 1..Len(sgen) : sgen[i].name # TEMP_ID

\* an exception left the probe of a network that holds a load of the case
\* and a load of the connection scenario
C10_Witness ==
    /\ pc = "raised"
    /\ tables_before # None
    /\ \E i \in 1..Len(load) : load[i].name = CONNECTION_ID
    /\ \E i \in 1..Len(load) : load[i].name = "1"

(***************************************************************************)
(* Properties of the run as a whole (checked under Spec).                  *)
(***************************************************************************)
Called(name) == \E i \in 1..Len(calls) : calls[i] = name

CallsOf(name) == Cardinality({i \in 1..Len(calls) : calls[i] = name})

\* the run ended in the RuntimeError of check_base_case_violations
BaseCaseRaised ==
    /\ pc = "raised"
    /\ exc = "RuntimeError"
    /\ contingency_scenario = None
    /\ ~Called("get_contingency_scenario")

BaseCaseChecked == config.entry = "buses_headroom" /\ pc \notin {"start", "base_case"}

\* C11: when the base-case check returns NOT_CONVERGED the run ends with a
\* RuntimeError raised by the constructor: no contingency scenario was built
\* or taken, no search and no probe was started, and no Headroom is returned.
C11_NotConvergedBaseCaseAborts ==
    (BaseCaseChecked /\ NOT_CONVERGED \in base_case_violations) =>
        /\ pc = "raised"
        /\ exc = "RuntimeError"
        /\ contingency_scenario = None
        /\ built = <<>>
        /\ headroom = <<>>
        /\ ~Called("get_contingency_scenario")
        /\ ~Called("max_power_available_mva")
        /\ ~Called("feasibility_check")

\* the base case diverged with the fast solver and with the full one
C11_Witness ==
    /\ BaseCaseRaised
    /\ base_case_violations = {NOT_CONVERGED}
    /\ CallsOf("open_case") = 2
    /\ solves = 3

FirstCall(name) == Min({i \in 1..Len(calls) : calls[i] = name})

\* the rows of a table that a connection of the configuration accounts for
ConnectionRows(rows, bus_number, mva) ==
    {i \in 1..Len(rows) :
        /\ rows[i].bus = bus_number
        /\ rows[i].name = CONNECTION_ID
        /\ rows[i].mva = mva}

\* the numbers of the buses of the case
CaseBusNumbers == {case.bus[i].number : i \in 1..Len(case.bus)}

\* every connection of the configuration names a bus of the case
ConnectionsNameCaseBuses ==
    \A i \in 1..Len(config.connection_scenario) :
        config.connection_scenario[i].bus_number \in CaseBusNumbers

\* the network is the case file with every connection of the configuration
\* (of configurations that name buses of the case only) and nothing temporary
ReloadedCase ==
    /\ line = case.line
    /\ trafo = case.trafo
    /\ \A i \in 1..Len(load) : load[i].name # TEMP_ID
    /\ \A i \in 1..Len(sgen) : sgen[i].name # TEMP_ID
    /\ ConnectionsNameCaseBuses =>
          /\ \A i \in 1..Len(config.connection_scenario) :
                LET connection == config.connection_scenario[i]
                IN  /\ connection.load # None =>
                          Cardinality(ConnectionRows(load, connection.bus_number,
                                                     connection.load)) = 1
                    /\ connection.gen # None =>
                          Cardinality(ConnectionRows(sgen, connection.bus_number,
                                                     connection.gen)) = 1
          /\ Len(load) = Len(case.load)
                + Cardinality({i \in 1..Len(config.connection_scenario) :
                                  config.connection_scenario[i].load # None})
          /\ Len(sgen) = Len(case.gen)
                + Cardinality({i \in 1..Len(config.connection_scenario) :
                                  config.connection_scenario[i].gen # None})

AfterScenario ==
    pc \in {"ready", "bus", "probe", "normal_check", "cc_next", "cc_disabled",
            "cc_exit", "cc_returned", "temp_exit", "after_probe", "search_returned",
            "done"}

\* C13: when the analyser builds the scenario itself, the builder has
\* returned and the case has been opened again, with the connection scenario
\* in place, before the first search starts; from then on the scenario in use
\* is the one the builder returned, and every contingency check removes
\* elements of that scenario only.
C13_ScenarioBuiltAndCaseReloadedBeforeSearch ==
    (config.entry = "buses_headroom" /\ config.contingency_scenario = None) =>
        /\ Called("max_power_available_mva") =>
              \E i, j \in 1..FirstCall("max_power_available_mva") :
                  /\ i < j
                  /\ calls[i] = "get_contingency_scenario returned"
                  /\ calls[j] = "open_case"
        /\ Called("feasibility_check") =>
              FirstCall("max_power_available_mva") < FirstCall("feasibility_check")
        /\ CallsOf("get_contingency_scenario") <= 1
        /\ pc = "ready" => ReloadedCase
        /\ AfterScenario =>
              /\ built # <<>>
              /\ contingency_scenario = built[1]
        /\ InContingencyCheck =>
              \A i \in 1..Len(tested) :
                  \E k \in 1..Len(Visits) :
                      /\ Visits[k].kind = tested[i].kind
                      /\ Visits[k].element = tested[i].element

\* the first search is about to start on a reloaded case that carries the
\* connection scenario, with a built scenario that left a critical element out
C13_Witness ==
    /\ pc = "probe"
    /\ ~Called("feasibility_check")
    /\ config.contingency_scenario = None
    /\ config.connection_scenario # <<>>
    /\ ConnectionsNameCaseBuses
    /\ ReloadedCase
    /\ contingency_scenario = built[1]
    /\ built[1].branches # <<>>
    /\ Len(built[1].branches) + Len(built[1].trafos) < NElements

LastCall(name) ==
    LET at == {0} \cup {i \in 1..Len(calls) : calls[i] = name}
    IN  CHOOSE i \in at : \A j \in at : j <= i

\* the calls made since the current search was entered
SearchCalls == SubSeq(calls, LastCall("max_power_available_mva") + 1, Len(calls))

InSearch ==
    pc \in {"probe", "normal_check", "cc_next", "cc_disabled", "cc_exit",
            "cc_returned", "temp_exit", "after_probe", "search_returned"}

\* the upper limit the current search was called with
Seed ==
    IF temp_kind = "load"
    THEN config.upper_load_limit_mva
    ELSE config.upper_gen_limit_mva

RECURSIVE EntriesOf(_, _)
EntriesOf(stats, keys) ==
    IF keys = {}
    THEN 0
    ELSE LET key == CHOOSE k \in keys : TRUE
         IN  Len(stats[key]) + EntriesOf(stats, keys \ {key})

\* C14: when the probe of the full upper limit is feasible, the search makes
\* that one probe only and returns the upper limit with no limiting factor;
\* no update of CapacityAnalysisStats and no reload of the case follow it.
C14_FeasibleUpperLimitIsReturned ==
    /\ BaseCaseChecked =>
          EntriesOf(feasibility_stats, DOMAIN feasibility_stats) = CallsOf("update")
    /\ (InSearch /\ probes # <<>> /\ probes[1].is_feasible) =>
          /\ pc = "search_returned"
          /\ probes = <<[mva |-> Seed, is_feasible |-> TRUE,
                         limiting_factor |-> None]>>
          /\ search_result = [avail |-> Seed, lf |-> None]
          /\ Cardinality({i \in 1..Len(SearchCalls) :
                            SearchCalls[i] = "feasibility_check"}) = 1
          /\ \A i \in 1..Len(SearchCalls) :
                SearchCalls[i] \notin {"update", "open_case"}

\* a load search whose first probe passed the normal check and an N-1 check
\* of every element of a non-empty scenario
C14_Witness ==
    /\ pc = "search_returned"
    /\ temp_kind = "load"
    /\ probes # <<>>
    /\ probes[1].is_feasible
    /\ search_result.avail = config.upper_load_limit_mva
    /\ tested # <<>>
    /\ Len(tested) = Len(contingency_scenario.branches)
                        + Len(contingency_scenario.trafos)
    /\ CallsOf("update") > 0

\* the feasibility checks called since the current search was entered
SearchChecks ==
    Cardinality({i \in 1..Len(SearchCalls) : SearchCalls[i] = "feasibility_check"})

\* C15: one search makes at most max_iterations feasibility checks, the probe
\* of the upper limit included, whatever the verdicts are.
C15_AtMostMaxIterationsProbes ==
    InSearch =>
        /\ config.max_iterations >= 1
        /\ Len(probes) <= config.max_iterations
        /\ SearchChecks <= config.max_iterations
        /\ SearchChecks \in {Len(probes), Len(probes) + 1}
        /\ pc = "search_returned" => SearchChecks = Len(probes)

\* a search that the bound ended: three probes of three, the limits still
\* further apart than the tolerance
C15_Witness ==
    /\ pc = "search_returned"
    /\ config.max_iterations = 3
    /\ Len(probes) = 3
    /\ SearchChecks = 3
    /\ upper_limit_mva.re - lower_limit_mva.re >= config.headroom_tolerance_p_mw
    /\ lower_limit_mva # ZeroMva

\* the limits of the current search are ordered and lie within the seed
LimitsAreOrdered ==
    InSearch =>
        /\ 0 <= lower_limit_mva.re
        /\ lower_limit_mva.re <= upper_limit_mva.re
        /\ upper_limit_mva.re <= Seed.re
        /\ pc = "search_returned" =>
              /\ lower_limit_mva.re <= search_result.avail.re
              /\ search_result.avail.re <= Seed.re

\* a step inside one search moves neither limit outwards
LimitsNarrow ==
    (InSearch /\ pc # "search_returned" /\ InSearch') =>
        /\ lower_limit_mva'.re >= lower_limit_mva.re
        /\ upper_limit_mva'.re <= upper_limit_mva.re

\* C16: throughout a search 0 <= lower.real <= upper.real <= seed.real, the
\* lower limit never decreases and the upper limit never increases, and the
\* value a search returns lies between its lower limit and its seed.
C16_BisectionBounds == []LimitsAreOrdered /\ [][LimitsNarrow]_vars

\* a completed search that moved both limits strictly inside the seed
C16_Witness ==
    /\ pc = "search_returned"
    /\ 0 < lower_limit_mva.re
    /\ lower_limit_mva.re < upper_limit_mva.re
    /\ upper_limit_mva.re < Seed.re
    /\ search_result.avail = lower_limit_mva

\* feasibility_check re-run on the network as it is, with a temporary
\* subsystem of the given power at the bus: the normal limits hold, and the
\* contingency limits hold with each enabled element of the scenario removed
FeasibleAt(kind, bus_number, mva) ==
    LET loads == IF kind = "load"
                 THEN add_subsystem(load, bus_number, mva, TEMP_ID)
                 ELSE load
        gens == IF kind = "gen"
                THEN add_subsystem(sgen, bus_number, mva, TEMP_ID)
                ELSE sgen
        Clean(lim, lines, trafos) ==
            check_violations(lim, run_solver(case, lines, trafos, loads, gens),
                             EmptyStats).v = NO_VIOLATIONS
        Without(rows, idx) == [rows EXCEPT ![idx].in_service = FALSE]
        CleanWithout(element_kind, element) ==
            LET idx == row_idx(element_kind, line, trafo, element)
            IN  IF idx = 0
                THEN TRUE
                ELSE IF ~is_enabled(Rows(element_kind), idx)
                     THEN TRUE
                     ELSE IF element_kind = "branch"
                          THEN Clean(ContingencyLimits, Without(line, idx), trafo)
                          ELSE Clean(ContingencyLimits, line, Without(trafo, idx))
    IN  /\ Clean(NormalLimits, line, trafo)
        /\ \A i \in 1..Len(contingency_scenario.branches) :
              CleanWithout("branch", contingency_scenario.branches[i])
        /\ \A i \in 1..Len(contingency_scenario.trafos) :
              CleanWithout("trafo", contingency_scenario.trafos[i])

SomeProbeWasFeasible == \E i \in 1..Len(probes) : probes[i].is_feasible

\* no probe above the returned value was feasible
GreaterProbesWereInfeasible ==
    \A i \in 1..Len(probes) :
        probes[i].mva.re > search_result.avail.re => ~probes[i].is_feasible

\* C17 as stated: the value every completed search returns is feasible when
\* tested again, also when every probe was infeasible and 0 is returned, and
\* no probe above it was feasible.
C17_ReturnedValueIsFeasible ==
    pc = "search_returned" =>
        /\ FeasibleAt(temp_kind, Bus.number, search_result.avail)
        /\ GreaterProbesWereInfeasible

\* C17: the value a completed search returns is feasible when tested again
\* if some probe of the search was feasible, and no probe above it was
\* feasible; when every probe was infeasible the search returns 0, a value
\* it never tested.
C17_ReturnedValueIsFeasibleIfProbed ==
    pc = "search_returned" =>
        /\ SomeProbeWasFeasible =>
              /\ FeasibleAt(temp_kind, Bus.number, search_result.avail)
              /\ \E i \in 1..Len(probes) :
                    /\ probes[i].is_feasible
                    /\ probes[i].mva = search_result.avail
        /\ ~SomeProbeWasFeasible => search_result.avail = ZeroMva
        /\ GreaterProbesWereInfeasible
        /\ \A i \in 1..Len(probes) :
              probes[i].is_feasible = FeasibleAt(temp_kind, Bus.number, probes[i].mva)

\* a search that returns a midpoint it found feasible, below a probe that
\* failed an N-1 check
C17_Witness ==
    /\ pc = "search_returned"
    /\ Len(probes) >= 2
    /\ SomeProbeWasFeasible
    /\ search_result.avail # ZeroMva
    /\ search_result.avail # Seed
    /\ FeasibleAt(temp_kind, Bus.number, search_result.avail)
    /\ \E i \in 1..Len(probes) :
          /\ probes[i].limiting_factor # None
          /\ probes[i].limiting_factor.ss # None

\* the position of the latest infeasible probe of the current search (0: none)
LatestInfeasibleProbe ==
    LET at == {0} \cup {i \in 1..Len(probes) : ~probes[i].is_feasible}
    IN  CHOOSE i \in at : \A j \in at : j <= i

\* C18: when the probe of the upper limit is infeasible, the limiting factor
\* a search returns is the one recorded last, that of the latest infeasible
\* probe, also when later probes were feasible.
C18_LimitingFactorOfLatestInfeasibleProbe ==
    (pc = "search_returned" /\ probes # <<>> /\ ~probes[1].is_feasible) =>
        /\ search_result.lf # None
        /\ search_result.lf = probes[LatestInfeasibleProbe].limiting_factor

\* the sum of the rows of a table at a bus, whatever the order of the rows
RECURSIVE MvaAt(_, _)
MvaAt(rows, number) ==
    IF rows = <<>>
    THEN ZeroMva
    ELSE IF Head(rows).bus = number
         THEN Plus(Head(rows).mva, MvaAt(Tail(rows), number))
         ELSE MvaAt(Tail(rows), number)

\* a bus has just been analysed; its record is the last of headroom
BusAnalysed == pc \in {"bus", "done"} /\ headroom # <<>>
LastHeadroom == headroom[Len(headroom)]

\* the last search of the bus just analysed was a generator search
GenSearchWasRun == temp_kind = "gen"

\* C19: for every bus the generator search is run if and only if the bus has
\* generation and its load headroom is not zero; without a generator search
\* the record carries gen_avail_mva = 0 and gen_lf = None.
C19_GenSearchIffGenerationAndLoadHeadroom ==
    BusAnalysed =>
        /\ GenSearchWasRun <=>
              /\ MvaAt(sgen, LastHeadroom.bus) # ZeroMva
              /\ LastHeadroom.load_avail_mva # ZeroMva
        /\ ~GenSearchWasRun =>
              /\ LastHeadroom.gen_avail_mva = ZeroMva
              /\ LastHeadroom.gen_lf = None

\* the bus just analysed has neither load nor generation in the network
BusIsEmpty ==
    /\ MvaAt(load, LastHeadroom.bus) = ZeroMva
    /\ MvaAt(sgen, LastHeadroom.bus) = ZeroMva

\* C20 as stated: a bus with zero actual load and zero actual generation has
\* load and generator headroom 0, and neither limiting factor names a
\* contingency element.
C20_EmptyBusHasNoHeadroom ==
    (BusAnalysed /\ BusIsEmpty) =>
        /\ LastHeadroom.load_avail_mva = ZeroMva
        /\ LastHeadroom.gen_avail_mva = ZeroMva
        /\ LastHeadroom.load_lf # None => LastHeadroom.load_lf.ss = None
        /\ LastHeadroom.gen_lf # None => LastHeadroom.gen_lf.ss = None

\* C20: a bus with zero actual load and zero actual generation gets no
\* generator search: its generator headroom is 0 with no limiting factor.
\* Its load headroom is what the load search from the upper load limit
\* returned, with that search's limiting factor.
C20_EmptyBusHasNoGenHeadroom ==
    (BusAnalysed /\ BusIsEmpty) =>
        /\ LastHeadroom.actual_load_mva = ZeroMva
        /\ LastHeadroom.actual_gen_mva = ZeroMva
        /\ LastHeadroom.gen_avail_mva = ZeroMva
        /\ LastHeadroom.gen_lf = None
        /\ ~GenSearchWasRun
        /\ probes # <<>>
        /\ probes[1].mva = config.upper_load_limit_mva
        /\ LastHeadroom.load_avail_mva = search_result.avail
        /\ LastHeadroom.load_lf = search_result.lf

\* an empty bus whose load search found headroom, in a network that has
\* generation at another bus
C20_Witness ==
    /\ BusAnalysed
    /\ BusIsEmpty
    /\ LastHeadroom.load_avail_mva # ZeroMva
    /\ LastHeadroom.gen_avail_mva = ZeroMva
    /\ sgen # <<>>
    /\ backend = "pandapower"

\* the power a probe is recorded with: negated for a generator probe
RecordedPower(probe) == IF probe.kind = "load" THEN probe.mva ELSE Neg(probe.mva)

\* the infeasible probes of the run at a bus, in probe order
InfeasibleProbesAt(bus_number) ==
    LET Failed(probe) == ~probe.is_feasible /\ probe.bus = bus_number
    IN  SelectSeq(run_probes, Failed)

\* the infeasible probes of the run at a bus that an element limited
ProbesLimitedBy(element, bus_number) ==
    LET Limited(probe) ==
            /\ ~probe.is_feasible
            /\ probe.bus = bus_number
            /\ probe.limiting_factor.ss = element
    IN  SelectSeq(run_probes, Limited)

UnfeasibleConditions(bus_number) ==
    LET failed == InfeasibleProbesAt(bus_number)
    IN  [i \in 1..Len(failed) |->
            [power_mva |-> RecordedPower(failed[i]), lf |-> failed[i].limiting_factor]]

ContingencyConditions(element, bus_number) ==
    LET limited == ProbesLimitedBy(element, bus_number)
    IN  [i \in 1..Len(limited) |->
            [power_mva |-> RecordedPower(limited[i]),
             v |-> limited[i].limiting_factor.v]]

\* the elements named by the limiting factor of some probe of the run
LimitingElements ==
    {run_probes[i].limiting_factor.ss :
        i \in {k \in 1..Len(run_probes) :
                  /\ ~run_probes[k].is_feasible
                  /\ run_probes[k].limiting_factor.ss # None}}

\* C21: per bus, CapacityAnalysisStats holds one UnfeasibleCondition for every
\* infeasible probe of the run, in probe order, with the probed power (negated
\* for a generator probe) and the probe's limiting factor, and nothing for a
\* feasible probe; within one search the recorded powers strictly decrease;
\* the index by element has an entry for a probe exactly when its limiting
\* factor names an element.
C21_StatsHoldEveryInfeasibleProbe ==
    BaseCaseChecked =>
        /\ DOMAIN feasibility_stats =
              {b \in 1..NBuses : InfeasibleProbesAt(b) # <<>>}
        /\ \A b \in DOMAIN feasibility_stats :
              feasibility_stats[b] = UnfeasibleConditions(b)
        /\ DOMAIN contingency_stats =
              {<<e, b>> \in LimitingElements \X (1..NBuses) :
                  ProbesLimitedBy(e, b) # <<>>}
        /\ \A key \in DOMAIN contingency_stats :
              contingency_stats[key] = ContingencyConditions(key[1], key[2])
        /\ \A i, j \in 1..Len(probes) :
              (i < j /\ ~probes[i].is_feasible /\ ~probes[j].is_feasible) =>
                  probes[j].mva.re < probes[i].mva.re

\* a finished run that recorded two failures of one search, a failure of a
\* generator probe and a failure that an element caused
C21_Witness ==
    /\ pc = "done"
    /\ \E b \in DOMAIN feasibility_stats : Len(feasibility_stats[b]) >= 2
    /\ \E i \in 1..Len(run_probes) : run_probes[i].is_feasible
    /\ \E b \in DOMAIN feasibility_stats :
          \E i \in 1..Len(feasibility_stats[b]) :
              feasibility_stats[b][i].power_mva.re < 0
    /\ contingency_stats # <<>>

IsPrefix(a, b) == Len(a) <= Len(b) /\ SubSeq(b, 1, Len(a)) = a

\* every list of a collector is kept and only extended
Grows(before, after) ==
    \A key \in DOMAIN before :
        /\ key \in DOMAIN after
        /\ IsPrefix(before[key], after[key])

\* what the collectors hold at the points of a run
StatsAreOfThisRun ==
    config.entry = "buses_headroom" =>
        /\ pc = "scenario" =>
              /\ violations_stats =
                    check_violations(NormalLimits, res, EmptyStats).stats
              /\ feasibility_stats = <<>>
              /\ contingency_stats = <<>>
        /\ (pc = "bus" /\ bus_idx = 0) =>
              /\ violations_stats = EmptyStats
              /\ feasibility_stats = <<>>
              /\ contingency_stats = <<>>
        /\ BaseCaseChecked =>
              /\ EarlierBus \notin DOMAIN feasibility_stats
              /\ \A key \in DOMAIN contingency_stats : key[1] # EarlierElement
        /\ pc = "done" =>
              \A b \in 1..NBuses :
                  IF b \in DOMAIN feasibility_stats
                  THEN Len(feasibility_stats[b]) = Len(InfeasibleProbesAt(b))
                  ELSE InfeasibleProbesAt(b) = <<>>

\* the two resets of a run are in check_base_case_violations and at the
\* start of buses_headroom; every other step keeps what was collected, and
\* starting a bus changes nothing
StatsAreKept ==
    /\ pc \notin {"base_case", "ready"} =>
          /\ Grows(violations_stats, violations_stats')
          /\ Grows(feasibility_stats, feasibility_stats')
          /\ Grows(contingency_stats, contingency_stats')
    /\ pc = "ready" => UNCHANGED capacity_stats_vars
    /\ pc = "bus" => UNCHANGED <<violations_stats, capacity_stats_vars>>

\* C22: both collectors are reset at the start of a run and not per bus:
\* whatever an earlier run of the process left, they hold the entries of the
\* current run only, those of all its buses.
C22_StatsAreResetPerRun == []StatsAreOfThisRun /\ [][StatsAreKept]_vars

\* a finished run whose collectors hold failures of two buses and values of
\* violations; every run is also started on the entries of an earlier run
C22_Witness ==
    /\ pc = "done"
    /\ Cardinality(DOMAIN feasibility_stats) >= 2
    /\ EarlierBus \notin DOMAIN feasibility_stats
    /\ violations_stats # EmptyStats
    /\ Len(headroom) = NBuses

\* the keys <<flag, threshold, element index>> of the elements that violate
\* a limit in the solved state r
ViolatingKeys(r, lim) ==
    {<<f, LimitOf(f, lim), i - 1>> :
        <<f, i>> \in {<<g, k>> \in (Violations \ {NOT_CONVERGED}) \X (1..(NBuses + NElements)) :
                         /\ k <= Len(ValuesOf(g, r))
                         /\ Strictly(g, ValuesOf(g, r)[k], LimitOf(g, lim))}}

\* the stats after a call that found r: each violating value appended once
StatsAfter(before, r, lim) ==
    IF ~r.converged
    THEN before
    ELSE LET hit == ViolatingKeys(r, lim)
         IN  [key \in DOMAIN before \cup hit |->
                 (IF key \in DOMAIN before THEN before[key] ELSE <<>>)
                 \o (IF key \in hit
                     THEN <<ValuesOf(key[1], r)[key[3] + 1]>>
                     ELSE <<>>)]

\* a step that returns from check_violations
ChecksViolations ==
    /\ pc \in {"base_case", "sb_disabled", "normal_check", "cc_disabled"}
    /\ solves' = solves + 1

\* C23: a converged check_violations call appends the value of every
\* violating element once, under <<flag, threshold, element index>>, after the
\* values already there; flags that did not trigger and elements that did not
\* violate get nothing.
C23_ViolatingValuesAppendedOnce ==
    [][ChecksViolations =>
          violations_stats' =
              StatsAfter(IF pc = "base_case" THEN EmptyStats ELSE violations_stats,
                         res', limits')]_vars

\* an element that violated the same limit in two probes since the reset,
\* with two different values in the order of the probes, next to an element
\* with one value
C23_Witness ==
    \E key, other \in DOMAIN violations_stats :
        /\ Len(violations_stats[key]) = 2
        /\ violations_stats[key][1] # violations_stats[key][2]
        /\ Len(violations_stats[other]) = 1
        /\ run_probes # <<>>

\* the calls made since the current probe called feasibility_check
ProbeCalls == SubSeq(calls, LastCall("feasibility_check") + 1, Len(calls))

InProbeCalls(name) == \E i \in 1..Len(ProbeCalls) : ProbeCalls[i] = name

\* what the normal check of a probe of the given power finds on the network
\* as it is
NormalViolationsAt(kind, bus_number, mva) ==
    LET loads == IF kind = "load"
                 THEN add_subsystem(load, bus_number, mva, TEMP_ID)
                 ELSE load
        gens == IF kind = "gen"
                THEN add_subsystem(sgen, bus_number, mva, TEMP_ID)
                ELSE sgen
    IN  check_violations(NormalLimits, run_solver(case, line, trafo, loads, gens),
                         EmptyStats).v

\* C24: a probe is feasible exactly when its normal check and its contingency
\* check both return NO_VIOLATIONS; the contingency check is called only after
\* a clean normal check; a probe whose normal check fails disables no element
\* and returns the flags of the normal check with no element.
C24_FeasibleIffBothChecksClean ==
    /\ (InSearch /\ InProbeCalls("contingency_check")) =>
          /\ Len(ProbeCalls) >= 2
          /\ ProbeCalls[1] = "check_violations"
          /\ ProbeCalls[2] = "contingency_check"
    /\ (InSearch /\ ~InProbeCalls("contingency_check")) =>
          /\ ~InProbeCalls("disable_branch")
          /\ ~InProbeCalls("disable_trafo")
    /\ pc \in {"cc_next", "cc_disabled", "cc_exit", "cc_returned"} =>
          InProbeCalls("contingency_check")
    /\ pc = "after_probe" =>
          LET found == NormalViolationsAt(temp_kind, Bus.number, temp_mva)
          IN  /\ is_feasible = FeasibleAt(temp_kind, Bus.number, temp_mva)
              /\ InProbeCalls("contingency_check") <=> found = NO_VIOLATIONS
              /\ found # NO_VIOLATIONS =>
                    /\ ~is_feasible
                    /\ limiting_factor = LimitingFactor(found, None)
                    /\ ProbeCalls = <<"check_violations">>
              /\ (found = NO_VIOLATIONS /\ ~is_feasible) =>
                    /\ limiting_factor # None
                    /\ limiting_factor.v # NO_VIOLATIONS
              /\ is_feasible => limiting_factor = None

\* a probe that failed its normal check, with a scenario whose elements the
\* probe before it had disabled one after the other
C24_Witness ==
    /\ pc = "after_probe"
    /\ NormalViolationsAt(temp_kind, Bus.number, temp_mva) # NO_VIOLATIONS
    /\ ProbeCalls = <<"check_violations">>
    /\ contingency_scenario.branches # <<>>
    /\ \E i \in 1..Len(run_probes) : run_probes[i].is_feasible
    /\ limiting_factor.ss = None

\* max_power_available_mva goes on after a midpoint probe
MidpointStep == pc = "after_probe" /\ probes # <<>>

TablesUnchanged == UNCHANGED <<line, trafo, load, sgen>>

\* what a bisection step does with the verdict of its probe
StepOfBisection ==
    MidpointStep =>
        /\ 2 * temp_mva.re = lower_limit_mva.re + upper_limit_mva.re
        /\ 2 * temp_mva.im = lower_limit_mva.im + upper_limit_mva.im
        /\ is_feasible =>
              /\ lower_limit_mva' = temp_mva
              /\ upper_limit_mva' = upper_limit_mva
              /\ UNCHANGED capacity_stats_vars
              /\ ReloadedCase
              /\ TablesUnchanged
              /\ calls' = calls
        /\ ~is_feasible =>
              /\ upper_limit_mva' = temp_mva
              /\ lower_limit_mva' = lower_limit_mva
              /\ EntriesOf(feasibility_stats', DOMAIN feasibility_stats') =
                    EntriesOf(feasibility_stats, DOMAIN feasibility_stats) + 1
              /\ Bus.number \in DOMAIN feasibility_stats'
              /\ feasibility_stats'[Bus.number][Len(feasibility_stats'[Bus.number])] =
                    [power_mva |-> IF temp_kind = "load" THEN temp_mva
                                   ELSE Neg(temp_mva),
                     lf |-> limiting_factor]
              /\ ReloadedCase'
              /\ calls' = calls \o <<"update", "open_case">>

\* C25: a bisection step probes the midpoint of lower and upper; a feasible
\* midpoint becomes lower and leaves upper, the stats and the loaded case as
\* they are; an infeasible midpoint becomes upper and leaves lower as it is,
\* one failure is recorded and the case is reloaded before the next probe.
C25_BisectionStep == [][StepOfBisection]_vars

\* a search whose first midpoint was feasible and whose second was not
C25_Witness ==
    /\ InSearch
    /\ Len(probes) = 3
    /\ ~probes[1].is_feasible
    /\ probes[2].is_feasible
    /\ ~probes[3].is_feasible
    /\ lower_limit_mva = probes[2].mva
    /\ upper_limit_mva = probes[3].mva
    /\ config.connection_scenario # <<>>

\* the real parts of the limits are closer than the tolerance
RealPartsWithinTolerance(lower, upper) ==
    upper.re - lower.re < config.headroom_tolerance_p_mw

\* a midpoint step ends the search before the last round exactly when the
\* real parts of the updated limits are within the tolerance
StopOfBisection ==
    MidpointStep =>
        /\ Len(probes') < config.max_iterations =>
              (pc' = "search_returned"
                  <=> RealPartsWithinTolerance(lower_limit_mva', upper_limit_mva'))
        /\ Len(probes') = config.max_iterations => pc' = "search_returned"
        /\ pc' = "search_returned" => search_result'.avail = lower_limit_mva'

\* a search that made fewer probes than allowed returned the upper limit at
\* once or stopped within the tolerance
EarlyStopIsWithinTolerance ==
    (pc = "search_returned" /\ Len(probes) < config.max_iterations) =>
        IF Len(probes) = 1
        THEN probes[1].is_feasible
        ELSE /\ RealPartsWithinTolerance(lower_limit_mva, upper_limit_mva)
             /\ search_result.avail = lower_limit_mva
             /\ \E i \in 1..Len(probes) :
                   ~probes[i].is_feasible /\ probes[i].mva = upper_limit_mva

\* C26: the loop stops before its last round exactly when, after the update
\* of a step, upper.real - lower.real < headroom_tolerance; the imaginary
\* parts play no role; the lower limit returned on such a stop is within the
\* tolerance of the final infeasible upper limit.
C26_StopWithinTolerance == []EarlyStopIsWithinTolerance /\ [][StopOfBisection]_vars

\* a search stopped after two of three probes with the real parts within the
\* tolerance and the imaginary parts not
C26_Witness ==
    /\ pc = "search_returned"
    /\ config.max_iterations = 3
    /\ Len(probes) = 2
    /\ RealPartsWithinTolerance(lower_limit_mva, upper_limit_mva)
    /\ upper_limit_mva.im - lower_limit_mva.im >= config.headroom_tolerance_p_mw
    /\ lower_limit_mva # ZeroMva

\* the position in calls of the feasibility_check before the last one (0: none)
PreviousFeasibilityCheck ==
    LET at == {0} \cup {i \in 1..(LastCall("feasibility_check") - 1) :
                           calls[i] = "feasibility_check"}
    IN  CHOOSE i \in at : \A j \in at : j <= i

\* the calls between the last two feasibility checks
CallsBetweenProbes ==
    SubSeq(calls, PreviousFeasibilityCheck + 1, LastCall("feasibility_check") - 1)

LastRunProbe == run_probes[Len(run_probes)]

\* the probe before the current one ended on a solve that did not converge
LastProbeDidNotConverge ==
    /\ run_probes # <<>>
    /\ LastRunProbe.limiting_factor # None
    /\ NOT_CONVERGED \in LastRunProbe.limiting_factor.v

\* a probe whose check did not converge ends as an infeasible probe, and the
\* next probe starts after a reload
NotConvergedProbeIsInfeasible ==
    /\ (pc \in {"temp_exit", "after_probe"} /\ exc = "None" /\ ~res.converged) =>
          /\ NOT_CONVERGED \in v
          /\ ~is_feasible
          /\ limiting_factor # None
          /\ NOT_CONVERGED \in limiting_factor.v
    /\ (pc = "normal_check" /\ LastProbeDidNotConverge) =>
          /\ \E i \in 1..Len(CallsBetweenProbes) :
                CallsBetweenProbes[i] = "open_case"
          /\ line = case.line
          /\ trafo = case.trafo
    /\ \A i \in 1..Len(run_probes) :
          (run_probes[i].limiting_factor # None
              /\ NOT_CONVERGED \in run_probes[i].limiting_factor.v) =>
                  ~run_probes[i].is_feasible

\* inside a probe a solve follows only a solve that converged
SolveFollowsConvergedSolve ==
    (pc = "cc_disabled" /\ solves' = solves + 1) => res.converged

\* C27: a probe whose check does not converge raises nothing and counts as
\* infeasible, and the case is reloaded after it before the solver runs
\* again, for the probe of the upper limit and for midpoints, in load and
\* generator searches.
C27_NotConvergedProbeReloads ==
    []NotConvergedProbeIsInfeasible /\ [][SolveFollowsConvergedSolve]_vars

\* the second probe of a generator search is about to be solved after the
\* probe of the upper limit did not converge
C27_Witness ==
    /\ pc = "normal_check"
    /\ temp_kind = "gen"
    /\ Len(probes) = 1
    /\ LastProbeDidNotConverge
    /\ LastRunProbe.kind = "gen"
    /\ ~res.converged

\* C28: the actual load and the actual generation reported for a bus are
\* the sums of the powers of the load and machine records of that bus, on
\* both backends and for every order of the records; a bus without records
\* gets 0.
C28_ActualPowerIsSumOfBusRecords ==
    BusAnalysed =>
        /\ LastHeadroom.actual_load_mva = MvaAt(load, LastHeadroom.bus)
        /\ LastHeadroom.actual_gen_mva = MvaAt(sgen, LastHeadroom.bus)

\* the same on the pandapower backend only
ActualPowerIsSumOnPandapower ==
    (BusAnalysed /\ backend # "psse") =>
        /\ LastHeadroom.actual_load_mva = MvaAt(load, LastHeadroom.bus)
        /\ LastHeadroom.actual_gen_mva = MvaAt(sgen, LastHeadroom.bus)

\* the elements in service in the case that are out of service in the engine
DisabledByEngine ==
    {<<"branch", i>> : i \in {j \in 1..Len(line) :
                                 case.line[j].in_service /\ ~line[j].in_service}}
    \cup {<<"trafo", i>> : i \in {j \in 1..Len(trafo) :
                                     case.trafo[j].in_service /\ ~trafo[j].in_service}}

\* the temporary loads and generators present in the engine
TemporaryElements ==
    {<<"load", i>> : i \in {j \in 1..Len(load) : load[j].name = TEMP_ID}}
    \cup {<<"gen", i>> : i \in {j \in 1..Len(sgen) : sgen[j].name = TEMP_ID}}

InsideProbe ==
    pc \in {"normal_check", "cc_next", "cc_disabled", "cc_exit", "cc_returned",
            "temp_exit"}

BuildingScenario == pc \in {"sb_next", "sb_disabled", "sb_exit", "sb_returned"}

\* nothing is mutated twice, and nothing outlives its scope
MutationsAreExclusive ==
    /\ Cardinality(DisabledByEngine) <= 1
    /\ Cardinality(TemporaryElements) <= 1
    /\ TemporaryElements # {} => InsideProbe
    /\ (DisabledByEngine # {} /\ pc # "raised") =>
          \/ InsideProbe /\ Cardinality(TemporaryElements) = 1
          \/ BuildingScenario /\ TemporaryElements = {}
    /\ pc \in {"probe", "after_probe", "search_returned", "bus", "done"} =>
          DisabledByEngine = {} /\ TemporaryElements = {}

\* a step that disables an element starts with nothing disabled, inside the
\* temporary addition of a probe or while the scenario is built
DisableIsNested ==
    (DisabledByEngine' \ DisabledByEngine # {}) =>
        /\ DisabledByEngine = {}
        /\ \/ InsideProbe /\ Cardinality(TemporaryElements) = 1
                          /\ TemporaryElements' = TemporaryElements
           \/ BuildingScenario /\ TemporaryElements = {}

\* C29: at most one element is disabled by the engine and at most one
\* temporary load or generator is present; an element is disabled only
\* inside the temporary addition of the current probe, or alone while the
\* contingency scenario is built; between two probes nothing temporary is
\* present and nothing is disabled.
C29_ExclusiveScopedMutation ==
    []MutationsAreExclusive /\ [][DisableIsNested]_vars

\* the second element of the scenario is disabled inside the temporary
\* generator of a probe, the first one being in service again
C29_Witness ==
    /\ pc = "cc_disabled"
    /\ temp_kind = "gen"
    /\ Cardinality(TemporaryElements) = 1
    /\ Cardinality(DisabledByEngine) = 1
    /\ Len(tested) >= 1

\* the connections of the configuration that name a bus of the case
ApplicableConnections ==
    {i \in 1..Len(config.connection_scenario) :
        config.connection_scenario[i].bus_number \in CaseBusNumbers}

\* the rows that connections have added to a table
RowsOfConnections(rows) == {i \in 1..Len(rows) : rows[i].name = CONNECTION_ID}

\* every applicable connection has its load and its generator in the
\* network exactly once, and no other row comes from a connection
ConnectionScenarioApplied ==
    /\ \A i \in ApplicableConnections :
          LET connection == config.connection_scenario[i]
          IN  /\ connection.load # None =>
                    Cardinality(ConnectionRows(load, connection.bus_number,
                                               connection.load)) = 1
              /\ connection.gen # None =>
                    Cardinality(ConnectionRows(sgen, connection.bus_number,
                                               connection.gen)) = 1
    /\ Cardinality(RowsOfConnections(load))
          = Cardinality({i \in ApplicableConnections :
                            config.connection_scenario[i].load # None})
    /\ Cardinality(RowsOfConnections(sgen))
          = Cardinality({i \in ApplicableConnections :
                            config.connection_scenario[i].gen # None})

\* C30: after every reload of the case each connection whose bus is in the
\* case has its load and generator added exactly once, whatever the order of
\* the entries and also when an entry names an absent bus, so that every
\* probe is solved on the case with the connection scenario.
C30_ReloadAppliesWholeConnectionScenario ==
    (config.entry = "buses_headroom" /\ Called("open_case")
        /\ (pc = "ready" \/ pc = "bus" \/ pc = "done" \/ InSearch)) =>
            ConnectionScenarioApplied

\* the same for the scenarios all of whose entries name a bus of the case
WholeScenarioAppliedWhenBusesExist ==
    (config.entry = "buses_headroom" /\ Called("open_case")
        /\ ConnectionsNameCaseBuses
        /\ (pc = "ready" \/ pc = "bus" \/ pc = "done" \/ InSearch)) =>
            ConnectionScenarioApplied

\* the same when the only absent bus has a number above those of the case
WholeScenarioAppliedWhenAbsentBusIsLast ==
    (config.entry = "buses_headroom" /\ Called("open_case")
        /\ (\A i \in 1..Len(config.connection_scenario) :
               config.connection_scenario[i].bus_number >= 1)
        /\ (pc = "ready" \/ pc = "bus" \/ pc = "done" \/ InSearch)) =>
            ConnectionScenarioApplied

=============================================================================
